---- MODULE Spec2Model ----
(***************************************************************************)
(* Skill marketplace: the id <-> directory-name mapping of SkillInstaller, *)
(* the aggregation and cache layer of GithubSkillSource, the installer     *)
(* state machine and the provider's command handlers.                      *)
(*                                                                         *)
(* Strings that the code builds or rewrites character by character         *)
(* (skill ids, directory names) are sequences of one-character strings.    *)
(***************************************************************************)
EXTENDS Integers, Sequences, FiniteSets, TLC

VARIABLES
    \* ---- id mapping (SkillInstaller.getSafeDirName / getSkillIdFromDirName)
    idPc,           \* "start" | "named" | "restored"
    idSkillId,      \* the skill id handed to getSafeDirName
    idDirName,      \* the directory name derived from it
    idRestored      \* the id getSkillIdFromDirName reads back from the name

idVars == <<idPc, idSkillId, idDirName, idRestored>>

VARIABLES
    \* ---- aggregation and cache layer (GithubSkillSource)
    cacheFile,      \* ~/.skill-marketplace/cache/marketplace_cache.json
    now,            \* Date.now(), in hours
    remoteEtag,     \* ETag of the first source's latest-commit listing
    fPc,            \* position of the running fetchSkillList call
    fCache,         \* its local `cache` (the CacheLoadResult)
    fIsRateLimited, \* its local `isRateLimited`
    pathRes,        \* per source, per path: the fetchSkillsFromPath promise
    srcRes,         \* per source: the fetchSkills promise
    fAllSkills,     \* its local `allSkills` (results.flat())
    fResult,        \* the value the call returned
    \* history of the running call, read by the properties only
    hFileAtLoad,    \* the cache file as loadFromCache found it
    hReval,         \* answer to the conditional request ("none": not sent)
    hLaunched,      \* the per-source fetchers were invoked
    hListing,       \* per source, per path: what the listing request met
    \* history of the repositories, read by the properties only
    hChangedSinceCached, \* the sources that got a commit after the listings
                         \* stored in the cache file were answered
    hChangedSinceListed  \* the sources that got a commit after the running
                         \* call's listing of them was answered

envVars == <<cacheFile, now, remoteEtag>>
callVars == <<fPc, fCache, fIsRateLimited, pathRes, srcRes, fAllSkills, fResult>>
histVars == <<hFileAtLoad, hReval, hLaunched, hListing>>
freshVars == <<hChangedSinceCached, hChangedSinceListed>>
fetchVars == <<envVars, callVars, histVars, freshVars>>

VARIABLES
    \* ---- installer (SkillInstaller) and the file system of one package
    storageMode,    \* the caller passes storagePath (backing store + link)
    backing,        \* actualDir, the package's backing directory
    toolEntry,      \* junctionDir when it is not actualDir: "none" | "link" | "dir"
    gitAvailable,   \* this.gitAvailable: "unknown" | "yes" | "no"
    iPc,            \* per call: "idle" | "listing" | "downloading" | "rm" | "backoff" | "done"
    iOp,            \* per call: "none" | "install" | "uninstall" | "update"
    iSkill,         \* per call: the Skill argument
    iTotal,         \* per call: files.length
    iCompleted,     \* per call: `completed`
    iAttempt,       \* per call: `i` of safeRemoveDir
    iDelay,         \* per call: ms of the pending backoff timer (0: none)
    iResult,        \* per call: the value the call resolved to
    \* history of each call, read by the properties only
    hFailedStep,    \* the step of installSkill that failed ("none": none did)
    hCleanup,       \* what the catch block's deletion did
    hStages,        \* per call: the stages installSkill ran, in call order
    hRefEntry,      \* per updateSkill call: junctionDir as uninstallSkill,
                    \* run in its place on the same disk, would have left it
    hProgress       \* per call: the (current, total) pairs handed to onProgress,
                    \* in call order

fsVars == <<storageMode, backing, toolEntry, gitAvailable>>
slotVars == <<iPc, iOp, iSkill, iTotal, iCompleted, iAttempt, iDelay, iResult>>
instHist == <<hFailedStep, hCleanup, hStages>>
instVars == <<fsVars, slotVars, instHist, hRefEntry, hProgress>>

VARIABLES
    \* ---- provider (SkillMarketplaceViewProvider)
    pAllSkills,     \* the package's entry of this._allSkills
    viewSkills,     \* its entry in the last updateSkills message posted
    hPushed         \* history: the command handler that finished last posted
                    \* updateSkills when it finished

provVars == <<pAllSkills, viewSkills, hPushed>>

VARIABLES
    \* ---- update check and restore (SkillInstaller)
    plainMeta,      \* .metadata.json of a plain directory at junctionDir
    uResult,        \* the checkUpdates call: "none" | "returned" | "thrown"
    updateMap,      \* the package's entry of the Map it returned
    \* history, read by the properties only
    hChecked,       \* the package's directory as checkUpdates found it
    hRestore        \* per call: restoreToOfficialVersion: "none" | "ok" |
                    \* "failed" | "norepo"

updVars == <<plainMeta, uResult, updateMap, hChecked, hRestore>>

VARIABLES
    \* ---- install path resolution (SkillInstaller.getInstallPath)
    agentType,      \* the configured agentType
    scope,          \* the configured installScope: "global" | "project"
    workspaceOpen,  \* vscode.workspace.workspaceFolders?.[0] is defined
    agentRootDir,   \* the agent's root marker directory exists
    globalPath,     \* agent.getGlobalPath(home), the skills directory, exists
    gipThrow,       \* throwOnMissing of the latest getInstallPath call
    gipResult       \* what it did: "none" | "path" | "empty" | "thrown"

pathEnv == <<agentType, scope, workspaceOpen, agentRootDir, globalPath>>
pathVars == <<pathEnv, gipThrow, gipResult>>

VARIABLES
    \* ---- GenericSkillSource.toSkill, the category of one listed package
    catHeader,      \* `category:` of the SKILL.md front matter ("": none)
    catMatches,     \* the patterns of guessCategory that name + description match
    catResult       \* category of the record toSkill built ("none": not built)

catVars == <<catHeader, catMatches, catResult>>

VARIABLES
    \* ---- the package's directory in the remote repository
    remoteSubdirs   \* it has sub-directories (scripts/, resources/, ...) with files

treeVars == <<remoteSubdirs>>

VARIABLES
    \* ---- _loadOfficialSkills, which replaces this._allSkills
    pReload,        \* "idle" | "fetching": its fetchSkillList is awaited
    pDetached,      \* per handler: the Skill object it found in _allSkills
                    \* belongs to a list that has been replaced since
    hDuring         \* an install has succeeded while the reload was fetching

reloadVars == <<pReload, pDetached, hDuring>>

vars == <<idVars, fetchVars, instVars, provVars, updVars, pathVars, catVars, treeVars,
          reloadVars>>

(***************************************************************************)
(* Bounds                                                                  *)
(***************************************************************************)
MaxNameLen == 4     \* longest source id / directory name drawn for the id mapping
MaxFiles == 2       \* most files a package's directory listing returns
MaxNow == 25        \* the clock stops here (hours)
TickHours == 25     \* the clock advances in steps of this many hours

(***************************************************************************)
(* Program constants                                                       *)
(***************************************************************************)
CacheTtlHours == 24 \* 24 * 60 * 60 * 1000 ms
MaxRetries == 5     \* safeRemoveDir(dirPath, maxRetries = 5)

(***************************************************************************)
(* Strings                                                                 *)
(***************************************************************************)
NoStr == <<>>

\* Characters a source id or a repository directory name is drawn from:
\* letters and the hyphen (':' cannot occur in either).
NameChars == {"a", "b", "-"}

RECURSIVE StringsOfLen(_, _)
StringsOfLen(chars, n) ==
    IF n = 0 THEN {<<>>}
    ELSE {<<c>> \o s : c \in chars, s \in StringsOfLen(chars, n - 1)}

Range(f) == {f[i] : i \in DOMAIN f}

StringsUpTo(chars, n) == UNION {StringsOfLen(chars, k) : k \in 1..n}

\* `${sourceId}:${localName}`
MakeId(sourceId, localName) == sourceId \o <<":">> \o localName

\* skillId.replace(/:/g, '--')
RECURSIVE getSafeDirName(_)
getSafeDirName(skillId) ==
    IF skillId = <<>> THEN <<>>
    ELSE IF Head(skillId) = ":" THEN <<"-", "-">> \o getSafeDirName(Tail(skillId))
    ELSE <<Head(skillId)>> \o getSafeDirName(Tail(skillId))

\* A reading of the directory name that rewrites nothing
getSkillIdFromDirNameVerbatim(dirName) == dirName

\* dirName.replace(/--/g, ':'): leftmost, non-overlapping matches
RECURSIVE getSkillIdFromDirName(_)
getSkillIdFromDirName(dirName) ==
    IF dirName = <<>> THEN <<>>
    ELSE IF Len(dirName) >= 2 /\ dirName[1] = "-" /\ dirName[2] = "-"
         THEN <<":">> \o getSkillIdFromDirName(SubSeq(dirName, 3, Len(dirName)))
    ELSE <<Head(dirName)>> \o getSkillIdFromDirName(Tail(dirName))

\* No id has been mapped yet.
IdStart ==
    /\ idPc = "start"
    /\ idDirName = NoStr
    /\ idRestored = NoStr

NoSha == "none"             \* commitSha: undefined

(***************************************************************************)
(* Installer and provider at rest                                          *)
(***************************************************************************)
Calls == {"h1", "h2"}       \* installer calls that can be in flight

NoMeta == [exists |-> FALSE, installedVersion |-> "none", junctionPath |-> FALSE,
           isLocalModified |-> FALSE]
NoRepo == [exists |-> FALSE, committed |-> FALSE]
NoDir == [exists |-> FALSE, files |-> {}, meta |-> NoMeta, repo |-> NoRepo,
          edited |-> FALSE]
NoSkill == [commitSha |-> NoSha, provenance |-> FALSE]
NotListed == [commitSha |-> NoSha, isInstalled |-> FALSE, hasUpdate |-> FALSE,
              installedVersion |-> NoSha, isLocalModified |-> FALSE]

\* No installer call is running and none has left a result behind.
SlotsIdle ==
    /\ iPc = [p \in Calls |-> "idle"]
    /\ iOp = [p \in Calls |-> "none"]
    /\ iSkill = [p \in Calls |-> NoSkill]
    /\ iTotal = [p \in Calls |-> 0]
    /\ iCompleted = [p \in Calls |-> 0]
    /\ iAttempt = [p \in Calls |-> 0]
    /\ iDelay = [p \in Calls |-> 0]
    /\ iResult = [p \in Calls |-> FALSE]
    /\ hFailedStep = [p \in Calls |-> "none"]
    /\ hCleanup = [p \in Calls |-> "none"]
    /\ hStages = [p \in Calls |-> <<>>]
    /\ hRefEntry = [p \in Calls |-> "none"]
    /\ hProgress = [p \in Calls |-> <<>>]

\* Nothing is installed and the installer has not run.
InstRest ==
    /\ storageMode = FALSE
    /\ backing = NoDir
    /\ toolEntry = "none"
    /\ gitAvailable = "unknown"
    /\ SlotsIdle

\* The provider has loaded no list.
ProvRest ==
    /\ pAllSkills = NotListed
    /\ viewSkills = NotListed
    /\ hPushed = TRUE

\* updateMap.get(id): undefined
NoUpdate == [set |-> FALSE, hasUpdate |-> FALSE, installedVersion |-> "none",
             latestVersion |-> NoSha]
NotChecked == [isDir |-> FALSE, hadMeta |-> FALSE, version |-> "none",
               modified |-> FALSE]

\* The configured agent's tool is installed with its skills directory, the
\* scope is global, and no path has been asked for.
PathRest ==
    /\ agentType = "antigravity"
    /\ scope = "global"
    /\ workspaceOpen = TRUE
    /\ agentRootDir = TRUE
    /\ globalPath = TRUE
    /\ gipThrow = TRUE
    /\ gipResult = "none"

\* The package is a flat directory.
TreeRest == remoteSubdirs = FALSE

\* No reload is under way and every handler's object is in the list.
ReloadRest ==
    /\ pReload = "idle"
    /\ pDetached = [p \in Calls |-> FALSE]
    /\ hDuring = FALSE

\* No package header has been read.
CatRest ==
    /\ catHeader = ""
    /\ catMatches = {}
    /\ catResult = "none"

\* No update check and no restore has run.
UpdRest ==
    /\ plainMeta = NoMeta
    /\ uResult = "none"
    /\ updateMap = NoUpdate
    /\ hChecked = NotChecked
    /\ hRestore = [p \in Calls |-> "none"]

(***************************************************************************)
(* Aggregation and cache layer: GithubSkillSource / GenericSkillSource     *)
(***************************************************************************)
NoEtag == "none"            \* etag: undefined
NoHash == <<>>              \* contentHash: undefined
Shas == {"r1"}              \* short commit hashes

DirF == <<"f">>
DirG == <<"g">>
SrcA == <<"a">>
SrcB == <<"b">>

\* resources/skill-sources.json as loadSourceConfigs reads it: a source with
\* several package roots in sub-directory layout, and a source with one
\* root in root layout that excludes a directory.
SourceA == [id |-> SrcA, skillsPath |-> <<"skills", "extra">>, pathType |-> "subdir",
            excludeDirs |-> {}]
SourceB == [id |-> SrcB, skillsPath |-> <<"">>, pathType |-> "root",
            excludeDirs |-> {DirG}]
sourceConfigs == <<SourceA, SourceB>>

\* The repositories: the entries under each package root.
Dir(name) == [name |-> name, type |-> "dir"]
File(name) == [name |-> name, type |-> "file"]
RemoteItems(s, p) ==
    IF s = 1 /\ p = 1 THEN <<Dir(DirF), File(<<"r">>)>>
    ELSE IF s = 1 /\ p = 2 THEN <<Dir(DirF), Dir(DirG)>>
    ELSE <<Dir(DirF), File(<<"r">>), Dir(DirG)>>

SourceIdx == 1..Len(sourceConfigs)
PathIdx(s) == 1..Len(sourceConfigs[s].skillsPath)

\* computeContentHash: md5 of JSON.stringify(skills). MD5 is taken to be
\* collision-free: the hash of a list is the list under a tag.
computeContentHash(skills) == <<"md5", skills>>

AbsentFile == [exists |-> FALSE, last_update |-> 0, etag |-> NoEtag,
               contentHash |-> NoHash, skills |-> <<>>]

\* A promise: pending, or resolved with a list of skills.
Pending == [done |-> FALSE, rejected |-> FALSE, skills |-> <<>>]
Resolved(skills) == [done |-> TRUE, rejected |-> FALSE, skills |-> skills]

RECURSIVE Flat(_)
Flat(lists) ==
    IF lists = <<>> THEN <<>> ELSE Head(lists) \o Flat(Tail(lists))

RECURSIVE SelectItems(_, _)
SelectItems(items, keep) ==
    IF items = <<>> THEN <<>>
    ELSE IF Head(items) \in keep THEN <<Head(items)>> \o SelectItems(Tail(items), keep)
    ELSE SelectItems(Tail(items), keep)

\* toSkill that names a skill by its directory alone
toSkillBareId(cfg, skillsPath, dirName) ==
    [id |-> dirName,
     skillPath |-> IF cfg.pathType = "root" THEN <<dirName>> ELSE <<skillsPath, dirName>>,
     source |-> cfg.id,
     commitSha |-> NoSha]

\* GenericSkillSource.toSkill, with the finalPath of fetchSkillsFromPath
toSkill(cfg, skillsPath, dirName) ==
    [id |-> MakeId(cfg.id, dirName),
     skillPath |-> IF cfg.pathType = "root" THEN <<dirName>> ELSE <<skillsPath, dirName>>,
     source |-> cfg.id,
     commitSha |-> NoSha]

RECURSIVE ToSkills(_, _, _)
ToSkills(cfg, skillsPath, items) ==
    IF items = <<>> THEN <<>>
    ELSE <<toSkill(cfg, skillsPath, Head(items).name)>>
             \o ToSkills(cfg, skillsPath, Tail(items))

\* GenericSkillSource.fetchSkillsFromPath: the listing answer is an error or
\* the entries of the directory; `usable` are the directories whose SKILL.md
\* was fetched and has a name and a description. Every error is caught
\* inside and turned into the empty list.
fetchSkillsFromPath(cfg, skillsPath, answer, usable) ==
    IF ~answer.ok THEN <<>>
    ELSE LET dirs == SelectItems(answer.items,
                                 {i \in Range(answer.items) : i.type = "dir"})
             kept == SelectItems(dirs,
                                 {i \in Range(dirs) : i.name \notin cfg.excludeDirs})
             found == SelectItems(kept, {i \in Range(kept) : i.name \in usable})
         IN ToSkills(cfg, skillsPath, found)

\* fetchSkills, second half: every skill gets the commit its
\* fetchLatestCommit found (NoSha: the commit queries of this source failed
\* or found none).
WithVersion(skills, sha) ==
    [i \in 1..Len(skills) |-> [skills[i] EXCEPT !.commitSha = sha]]

\* What the remote listing API may answer for one package root: an error
\* (status other than 200, network error, unparsable body) or the entries.
ListingFailed == [ok |-> FALSE, items |-> <<>>]
ListingAnswers(s, p) == {ListingFailed, [ok |-> TRUE, items |-> RemoteItems(s, p)]}
\* The directories whose SKILL.md can be fetched and parsed.
UsableSets == {{DirF, DirG}, {DirF}}

\* loadFromCache that hands out nothing once the cache has expired
loadFromCacheExpiredDropped(file, time) ==
    IF ~file.exists THEN [skills |-> <<>>, etag |-> NoEtag, isValid |-> FALSE]
    ELSE IF file.contentHash # NoHash
            /\ computeContentHash(file.skills) # file.contentHash
         THEN [skills |-> <<>>, etag |-> NoEtag, isValid |-> FALSE]
    ELSE IF time - file.last_update > CacheTtlHours
         THEN [skills |-> <<>>, etag |-> file.etag, isValid |-> FALSE]
    ELSE [skills |-> file.skills, etag |-> file.etag, isValid |-> TRUE]

\* loadFromCache without the integrity check
loadFromCacheUnchecked(file, time) ==
    IF ~file.exists THEN [skills |-> <<>>, etag |-> NoEtag, isValid |-> FALSE]
    ELSE IF time - file.last_update > CacheTtlHours
         THEN [skills |-> file.skills, etag |-> file.etag, isValid |-> FALSE]
    ELSE [skills |-> file.skills, etag |-> file.etag, isValid |-> TRUE]

\* GithubSkillSource.loadFromCache
loadFromCache(file, time) ==
    IF ~file.exists THEN [skills |-> <<>>, etag |-> NoEtag, isValid |-> FALSE]
    ELSE IF file.contentHash # NoHash
            /\ computeContentHash(file.skills) # file.contentHash
         THEN [skills |-> <<>>, etag |-> NoEtag, isValid |-> FALSE]
    ELSE IF time - file.last_update > CacheTtlHours
         THEN [skills |-> file.skills, etag |-> file.etag, isValid |-> FALSE]
    ELSE [skills |-> file.skills, etag |-> file.etag, isValid |-> TRUE]

\* checkCacheValidity with the two statuses swapped
checkCacheValiditySwapped(outcome) == [notModified |-> outcome = "200"]

\* checkCacheValidity that takes a failed request for "not modified"
checkCacheValidityErrorIsFresh(outcome) ==
    [notModified |-> outcome \in {"304", "neterror"}]

\* GithubSkillSource.checkCacheValidity: the status of the conditional
\* request ("neterror": the request itself failed)
checkCacheValidity(outcome) == [notModified |-> outcome = "304"]

\* What the hosting API may answer to If-None-Match: etag
RevalidationAnswers(etag) ==
    {"neterror", "other"} \cup (IF etag = remoteEtag THEN {"304"} ELSE {"200"})

\* fetchSkillList, the callback of this.sources.map: a source whose
\* fetchSkills rejects yields [] and sets isRateLimited.
SourceResult(promise) == IF promise.rejected THEN <<>> ELSE promise.skills

\* A join in which a source that yields nothing cancels its siblings
StoreResultFailFast(results, s, promise) ==
    IF promise.skills = <<>> THEN [t \in DOMAIN results |-> promise]
    ELSE [results EXCEPT ![s] = promise]

\* Promise.all keeps the results at the index of their source.
StoreResult(results, s, promise) == [results EXCEPT ![s] = promise]

\* Step 4 of fetchSkillList: fall back to the loaded cache, expired or not.
Fallback(cache) ==
    IF cache.skills # <<>>
    THEN [skills |-> cache.skills, isRateLimited |-> TRUE, fromCache |-> TRUE]
    ELSE [skills |-> <<>>, isRateLimited |-> TRUE, fromCache |-> FALSE]

NoResult == [skills |-> <<>>, isRateLimited |-> FALSE, fromCache |-> FALSE]

AllPending == [s \in SourceIdx |-> [p \in PathIdx(s) |-> Pending]]
NoListing == [s \in SourceIdx |-> [p \in PathIdx(s) |-> "none"]]

NoCacheLoaded == loadFromCache(AbsentFile, 0)
NonePending == [s \in SourceIdx |-> Pending]

\* The fetch layer at rest, as the constructor leaves it: no call is
\* running, and the locals of a call do not exist.
FetchIdle ==
    /\ cacheFile = AbsentFile
    /\ now = 0
    /\ remoteEtag = "e1"
    /\ fPc = "idle"
    /\ fCache = NoCacheLoaded
    /\ fIsRateLimited = FALSE
    /\ pathRes = AllPending
    /\ srcRes = NonePending
    /\ fAllSkills = <<>>
    /\ fResult = NoResult
    /\ hFileAtLoad = AbsentFile
    /\ hReval = "none"
    /\ hLaunched = FALSE
    /\ hListing = NoListing
    /\ hChangedSinceCached = {}
    /\ hChangedSinceListed = {}


\* fetchSkillList, steps 1 and 2 up to the first await
FetchCall ==
    /\ fPc = "idle"
    /\ LET cache == loadFromCache(cacheFile, now) IN
       /\ fCache' = cache
       /\ IF cache.isValid /\ cache.skills # <<>> /\ cache.etag # NoEtag
          THEN fPc' = "revalidate" /\ hLaunched' = FALSE
          ELSE fPc' = "fetching" /\ hLaunched' = TRUE
    /\ hFileAtLoad' = cacheFile
    /\ fIsRateLimited' = FALSE
    /\ pathRes' = AllPending
    /\ srcRes' = NonePending
    /\ fAllSkills' = <<>>
    /\ fResult' = NoResult
    /\ hReval' = "none"
    /\ hListing' = NoListing
    /\ UNCHANGED <<envVars, idVars, instVars, provVars, updVars, pathVars, catVars, treeVars, reloadVars, freshVars>>

\* The conditional request of checkCacheValidity is answered.
RevalidateResponse ==
    /\ fPc = "revalidate"
    /\ \E outcome \in RevalidationAnswers(fCache.etag) :
          /\ hReval' = outcome
          /\ IF checkCacheValidity(outcome).notModified
             THEN /\ fResult' = [skills |-> fCache.skills, isRateLimited |-> FALSE,
                                 fromCache |-> TRUE]
                  /\ fPc' = "done"
                  /\ UNCHANGED hLaunched
             ELSE /\ fPc' = "fetching"
                  /\ hLaunched' = TRUE
                  /\ UNCHANGED fResult
    /\ UNCHANGED <<envVars, idVars, instVars, provVars, fCache, fIsRateLimited, pathRes, srcRes,
                   fAllSkills, hFileAtLoad, hListing, updVars, pathVars, catVars, treeVars, reloadVars, freshVars>>

\* One fetchSkillsFromPath of one source resolves.
PathListingResponse(s, p) ==
    /\ fPc = "fetching"
    /\ ~pathRes[s][p].done
    /\ \E answer \in ListingAnswers(s, p), usable \in UsableSets :
          /\ pathRes' = [pathRes EXCEPT ![s][p] =
                 Resolved(fetchSkillsFromPath(sourceConfigs[s],
                              sourceConfigs[s].skillsPath[p], answer, usable))]
          /\ hListing' = [hListing EXCEPT ![s][p] =
                             IF answer.ok THEN "ok" ELSE "failed"]
    /\ UNCHANGED <<envVars, idVars, instVars, provVars, fPc, fCache, fIsRateLimited, srcRes, fAllSkills,
                   fResult, hFileAtLoad, hReval, hLaunched, updVars, pathVars, catVars, treeVars, reloadVars, freshVars>>

\* fetchSkills of one source resolves: its paths are joined and every
\* skill's latest commit has been looked up.
SourceDone(s) ==
    /\ fPc = "fetching"
    /\ ~srcRes[s].done
    /\ \A p \in PathIdx(s) : pathRes[s][p].done
    /\ LET allSkills == Flat([p \in PathIdx(s) |-> pathRes[s][p].skills]) IN
       \E sha \in Shas \cup {NoSha} :
          srcRes' = StoreResult(srcRes, s, Resolved(WithVersion(allSkills, sha)))
    /\ UNCHANGED <<envVars, idVars, instVars, provVars, fPc, fCache, fIsRateLimited, pathRes, fAllSkills,
                   fResult, histVars, updVars, pathVars, catVars, treeVars, reloadVars, freshVars>>

\* Promise.all over the sources resolves: step 3 after the await, and
\* steps 4 and 5 when nothing was fetched.
FetchJoin ==
    /\ fPc = "fetching"
    /\ \A s \in SourceIdx : srcRes[s].done
    /\ LET allSkills == Flat([s \in SourceIdx |-> SourceResult(srcRes[s])])
           limited == fIsRateLimited \/ \E s \in SourceIdx : srcRes[s].rejected
       IN /\ fAllSkills' = allSkills
          /\ fIsRateLimited' = limited
          /\ IF allSkills # <<>>
             THEN fPc' = "etag" /\ UNCHANGED fResult
             ELSE fPc' = "done" /\ fResult' = Fallback(fCache)
    /\ UNCHANGED <<envVars, idVars, instVars, provVars, fCache, pathRes, srcRes, histVars, updVars, pathVars, catVars, treeVars, reloadVars, freshVars>>

\* fetchRepoEtag is answered, then saveToCache and the live return.
EtagResponse ==
    /\ fPc = "etag"
    /\ \E answered \in BOOLEAN, saved \in BOOLEAN :
          LET newEtag == IF answered THEN remoteEtag ELSE NoEtag IN
          /\ cacheFile' = IF saved
                          THEN [exists |-> TRUE, last_update |-> now, etag |-> newEtag,
                                contentHash |-> computeContentHash(fAllSkills),
                                skills |-> fAllSkills]
                          ELSE cacheFile
          /\ hChangedSinceCached' = IF saved THEN hChangedSinceListed
                                    ELSE hChangedSinceCached
    /\ fResult' = [skills |-> fAllSkills, isRateLimited |-> fIsRateLimited,
                   fromCache |-> FALSE]
    /\ fPc' = "done"
    /\ UNCHANGED <<now, remoteEtag, idVars, instVars, provVars, fCache, fIsRateLimited,
                   pathRes, srcRes, fAllSkills, histVars, hChangedSinceListed, updVars,
                   pathVars, catVars, treeVars, reloadVars>>

\* The caller has the result; the next call may start.
FetchReturn ==
    /\ fPc = "done"
    /\ fPc' = "idle"
    /\ fCache' = NoCacheLoaded
    /\ fIsRateLimited' = FALSE
    /\ pathRes' = AllPending
    /\ srcRes' = NonePending
    /\ fAllSkills' = <<>>
    /\ fResult' = NoResult
    /\ hFileAtLoad' = AbsentFile
    /\ hReval' = "none"
    /\ hLaunched' = FALSE
    /\ hListing' = NoListing
    /\ hChangedSinceListed' = {}
    /\ UNCHANGED <<envVars, hChangedSinceCached, idVars, instVars, provVars, updVars, pathVars,
                   catVars, treeVars, reloadVars>>

\* Time passes between two calls.
Tick ==
    /\ fPc = "idle"
    /\ now + TickHours <= MaxNow
    /\ now' = now + TickHours
    /\ UNCHANGED <<cacheFile, remoteEtag, idVars, instVars, provVars, callVars, histVars, updVars, pathVars, catVars, treeVars, reloadVars, freshVars>>

\* Source s has been listed by the running call: one of its
\* fetchSkillsFromPath requests has been answered.
ListedNow(s) ==
    /\ fPc \in {"fetching", "etag"}
    /\ \E p \in PathIdx(s) : pathRes[s][p].done

\* A commit lands in source s: it is newer than the listings of s the
\* cache file holds, and than those the running call has received.
CommitLands(s) ==
    /\ hChangedSinceCached' = IF cacheFile.exists THEN hChangedSinceCached \cup {s}
                              ELSE hChangedSinceCached
    /\ hChangedSinceListed' = IF ListedNow(s) THEN hChangedSinceListed \cup {s}
                              ELSE hChangedSinceListed

\* A commit lands in the first source's repository.
RemotePush ==
    /\ remoteEtag = "e1"
    /\ remoteEtag' = "e2"
    /\ CommitLands(1)
    /\ UNCHANGED <<cacheFile, now, idVars, instVars, provVars, callVars, histVars, updVars, pathVars, catVars, treeVars, reloadVars>>

\* A commit lands in the repository of a source that is not the first one:
\* the ETag of the first source's commit listing stays as it is.
SourcePush(s) ==
    /\ s # 1
    /\ s \notin hChangedSinceCached \cup hChangedSinceListed
    /\ cacheFile.exists \/ ListedNow(s)
    /\ CommitLands(s)
    /\ UNCHANGED <<envVars, idVars, instVars, provVars, callVars, histVars, updVars, pathVars,
                   catVars, treeVars, reloadVars>>

\* The cache file is damaged between two calls: its skills array is
\* changed after contentHash was computed.
CorruptCache ==
    /\ fPc = "idle"
    /\ cacheFile.exists
    /\ computeContentHash(cacheFile.skills) = cacheFile.contentHash
    /\ cacheFile' = [cacheFile EXCEPT !.skills = Tail(cacheFile.skills)]
    /\ UNCHANGED <<now, remoteEtag, idVars, instVars, provVars, callVars, histVars, updVars, pathVars, catVars, treeVars, reloadVars, freshVars>>

FetchInit ==
    /\ FetchIdle
    /\ IdStart
    /\ idSkillId = MakeId(SrcA, DirF)
    /\ InstRest
    /\ ProvRest
    /\ UpdRest
    /\ ReloadRest
    /\ CatRest
    /\ TreeRest
    /\ PathRest

FetchNext ==
    \/ FetchCall
    \/ RevalidateResponse
    \/ \E s \in SourceIdx : \E p \in PathIdx(s) : PathListingResponse(s, p)
    \/ \E s \in SourceIdx : SourceDone(s)
    \/ FetchJoin
    \/ EtagResponse
    \/ FetchReturn
    \/ Tick
    \/ RemotePush
    \/ CorruptCache

SpecFetch == FetchInit /\ [][FetchNext]_vars

\* The same calls while commits land in every source.
FreshNext ==
    \/ FetchCall
    \/ RevalidateResponse
    \/ \E s \in SourceIdx : \E p \in PathIdx(s) : PathListingResponse(s, p)
    \/ \E s \in SourceIdx : SourceDone(s)
    \/ FetchJoin
    \/ EtagResponse
    \/ FetchReturn
    \/ RemotePush
    \/ \E s \in SourceIdx : SourcePush(s)

SpecFresh == FetchInit /\ [][FreshNext]_vars

(***************************************************************************)
(* Properties of the aggregation and cache layer                           *)
(***************************************************************************)
Intact(file) == file.exists /\ computeContentHash(file.skills) = file.contentHash
Corrupted(file) ==
    /\ file.exists
    /\ file.contentHash # NoHash
    /\ computeContentHash(file.skills) # file.contentHash
Expired(file, time) == time - file.last_update > CacheTtlHours

\* A source failed: every listing request of it met an error.
SourceFailed(s) == \A p \in PathIdx(s) : hListing[s][p] = "failed"
LiveFetchFailed == hLaunched /\ \A s \in SourceIdx : SourceFailed(s)

Ids(skills) == [i \in DOMAIN skills |-> skills[i].id]

\* C3: when the live fetch fails for every source, fetchSkillList returns
\* the cached list with isRateLimited = TRUE if an intact cache exists,
\* expired or not, and the empty list with isRateLimited = TRUE if no cache
\* exists.
C3_FallbackOnTotalFailure ==
    (fPc = "done" /\ LiveFetchFailed) =>
        /\ fResult.isRateLimited
        /\ (Intact(hFileAtLoad) /\ ~Expired(hFileAtLoad, now))
              => fResult.skills = hFileAtLoad.skills
        /\ (Intact(hFileAtLoad) /\ Expired(hFileAtLoad, now))
              => fResult.skills = hFileAtLoad.skills
        /\ ~hFileAtLoad.exists => fResult.skills = <<>>

C3_Witness ==
    /\ fPc = "done"
    /\ LiveFetchFailed
    /\ Intact(hFileAtLoad)
    /\ Expired(hFileAtLoad, now)
    /\ hFileAtLoad.skills # <<>>
    /\ fResult.fromCache

\* C4: a cache file whose skills list does not hash to its contentHash is
\* treated as absent: no conditional request is sent, the per-source
\* fetchers run, and the call never returns the list of the file, not even
\* when the live fetch obtains nothing.
C4_CorruptCacheIsAbsent ==
    (fPc # "idle" /\ Corrupted(hFileAtLoad)) =>
        /\ fCache.skills = <<>>
        /\ ~fCache.isValid
        /\ fPc # "revalidate"
        /\ hReval = "none"
        /\ hLaunched
        /\ fPc = "done" => (~fResult.fromCache /\ fResult.skills = fAllSkills)

C4_Witness ==
    /\ fPc = "done"
    /\ Corrupted(hFileAtLoad)
    /\ hFileAtLoad.skills # <<>>
    /\ LiveFetchFailed
    /\ fResult.skills = <<>>

\* C5: when the conditional request is answered 304, no per-source fetcher
\* is invoked, the cached list is returned as it is, and isRateLimited is
\* FALSE.
C5_NotModifiedShortCircuit ==
    (fPc = "done" /\ hReval = "304") =>
        /\ ~hLaunched
        /\ \A s \in SourceIdx : \A p \in PathIdx(s) : hListing[s][p] = "none"
        /\ fResult.skills = hFileAtLoad.skills
        /\ ~fResult.isRateLimited

C5_Witness ==
    /\ fPc = "done"
    /\ hReval = "304"
    /\ Intact(hFileAtLoad)
    /\ ~Expired(hFileAtLoad, now)
    /\ hFileAtLoad.etag # NoEtag
    /\ fResult.skills # <<>>

\* C6 as claimed: when the conditional request fails with a network error,
\* the cached list is used and the per-source fetchers are not launched.
C6_NetErrorUsesCache ==
    (fPc = "done" /\ hReval = "neterror") =>
        (~hLaunched /\ fResult.skills = hFileAtLoad.skills)

\* C6 as amended: when the conditional request fails with a network error,
\* the per-source fetchers are launched; the cached list is returned, with
\* isRateLimited = TRUE, only when they obtain no package, and the fetched
\* list is returned otherwise.
C6_NetErrorRefetches ==
    hReval = "neterror" =>
        /\ hLaunched
        /\ fPc = "done" =>
              IF fAllSkills = <<>>
              THEN fResult = [skills |-> hFileAtLoad.skills, isRateLimited |-> TRUE,
                              fromCache |-> TRUE]
              ELSE fResult.skills = fAllSkills /\ ~fResult.fromCache

C6_Witness ==
    /\ fPc = "done"
    /\ hReval = "neterror"
    /\ fAllSkills = <<>>
    /\ fResult.skills # <<>>

\* C7: a non-empty live result is flagged isRateLimited exactly when at
\* least one source failed to fetch.
C7_DegradedIffSourceFailed ==
    (fPc = "done" /\ ~fResult.fromCache /\ fResult.skills # <<>>) =>
        (fResult.isRateLimited <=> \E s \in SourceIdx : SourceFailed(s))

\* C8: whatever sources fail and in whatever order the fetches resolve, a
\* failing source contributes the empty list, every other source keeps
\* the packages of its own listings, and the live result is the
\* concatenation of the sources' lists in source order.
C8_SiblingsKept ==
    /\ \A s \in SourceIdx :
          srcRes[s].done =>
             /\ Ids(srcRes[s].skills)
                   = Ids(Flat([p \in PathIdx(s) |-> pathRes[s][p].skills]))
             /\ SourceFailed(s) => srcRes[s].skills = <<>>
    /\ \A s \in SourceIdx : \A p \in PathIdx(s) :
          pathRes[s][p].done =>
             pathRes[s][p].skills \in
                {fetchSkillsFromPath(sourceConfigs[s], sourceConfigs[s].skillsPath[p],
                                     a, u) : a \in ListingAnswers(s, p), u \in UsableSets}
    /\ (fPc \in {"etag", "done"} /\ hLaunched) =>
          fAllSkills = Flat([s \in SourceIdx |-> srcRes[s].skills])
    /\ (fPc = "done" /\ hLaunched /\ fAllSkills # <<>>) =>
          (fResult.skills = fAllSkills /\ ~fResult.fromCache)

C8_Witness ==
    /\ fPc = "done"
    /\ hLaunched
    /\ SourceFailed(1)
    /\ ~SourceFailed(2)
    /\ fResult.skills = srcRes[2].skills
    /\ fResult.skills # <<>>

\* C10: the ids of the list a live fetchSkillList returns are pairwise
\* distinct.
C10_UniqueIds ==
    (fPc = "done" /\ ~fResult.fromCache) =>
        \A i, j \in DOMAIN fResult.skills :
            i # j => fResult.skills[i].id # fResult.skills[j].id

\* The directory a record was built from: the last segment of its skillPath.
LocalName(skill) == skill.skillPath[Len(skill.skillPath)]

\* C11: when two sources with different ids each list a package directory
\* of the same name, the live result holds a record for each, sourceA:name
\* and sourceB:name; the two ids differ, and so do the directory names the
\* installer derives from them.
C11_SameNameTwoSources ==
    (fPc = "done" /\ ~fResult.fromCache) =>
        /\ \A i, j \in DOMAIN fResult.skills :
              LET a == fResult.skills[i]
                  b == fResult.skills[j]
              IN (a.source # b.source /\ LocalName(a) = LocalName(b)) =>
                    /\ a.id = MakeId(a.source, LocalName(a))
                    /\ b.id = MakeId(b.source, LocalName(b))
                    /\ a.id # b.id
                    /\ getSafeDirName(a.id) # getSafeDirName(b.id)
        /\ ((\E p \in PathIdx(1) : hListing[1][p] = "ok") /\ hListing[2][1] = "ok") =>
              /\ MakeId(SrcA, DirF) \in Range(Ids(fResult.skills))
              /\ MakeId(SrcB, DirF) \in Range(Ids(fResult.skills))

C11_Witness ==
    /\ fPc = "done"
    /\ ~fResult.fromCache
    /\ \E i, j \in DOMAIN fResult.skills :
          /\ fResult.skills[i].id = MakeId(SrcA, DirF)
          /\ fResult.skills[j].id = MakeId(SrcB, DirF)
          /\ LocalName(fResult.skills[i]) = LocalName(fResult.skills[j])


(***************************************************************************)
(* Specification of the id mapping: an id is drawn, turned into a          *)
(* directory name (install), and read back from it (directory scan).       *)
(***************************************************************************)
IdNames == StringsUpTo(NameChars, MaxNameLen)
IdSet == {MakeId(s, n) : s \in IdNames, n \in IdNames}

IdInit ==
    /\ IdStart
    /\ idSkillId \in IdSet
    /\ FetchIdle
    /\ InstRest
    /\ ProvRest
    /\ UpdRest
    /\ ReloadRest
    /\ CatRest
    /\ TreeRest
    /\ PathRest

IdToDirName ==
    /\ idPc = "start"
    /\ idDirName' = getSafeDirName(idSkillId)
    /\ idPc' = "named"
    /\ UNCHANGED <<idSkillId, idRestored, fetchVars, instVars, provVars, updVars, pathVars, catVars, treeVars, reloadVars>>

IdFromDirName ==
    /\ idPc = "named"
    /\ idRestored' = getSkillIdFromDirName(idDirName)
    /\ idPc' = "restored"
    /\ UNCHANGED <<idSkillId, idDirName, fetchVars, instVars, provVars, updVars, pathVars, catVars, treeVars, reloadVars>>

IdNext == IdToDirName \/ IdFromDirName

SpecIds == IdInit /\ [][IdNext]_vars

\* C9: the id-to-directory-name mapping is exactly invertible: for every id
\* sourceId:localName (hyphens allowed in both parts), reading the directory
\* name of the id back yields that id.
C9_ExactlyInvertible ==
    idPc = "restored" => idRestored = idSkillId

\* C12: for a source id and a local name that contain neither ':' nor '-',
\* the directory name of sourceId:localName reads back as that same id.
C12_RoundTripWithoutHyphen ==
    (idPc = "restored" /\ "-" \notin Range(idSkillId)) =>
        /\ idDirName = getSafeDirName(idSkillId)
        /\ idRestored = idSkillId

C12_Witness ==
    /\ idPc = "restored"
    /\ "-" \notin Range(idSkillId)
    /\ Len(idSkillId) = 2 * MaxNameLen + 1
    /\ idDirName # idSkillId
    /\ idRestored = idSkillId

(***************************************************************************)
(* Installer: SkillInstaller                                               *)
(*                                                                         *)
(* One package is followed.  actualDir is `backing`; junctionDir is        *)
(* `toolEntry` when the caller passes storagePath and is actualDir itself  *)
(* otherwise.  A call advances at its awaits: the code between two awaits  *)
(* is one step.                                                            *)
(***************************************************************************)
Skills == [commitSha : {NoSha, "r1", "r2"}, provenance : BOOLEAN]

EmptyDir == [NoDir EXCEPT !.exists = TRUE]

\* Steps of installSkill inside its try block, up to the metadata save.
RolledBackSteps == {"listing", "nofiles", "mkdir", "download", "metadata"}

\* fs.existsSync(junctionDir): a link is followed to its target
existsJunctionDir(mode, entry, dir) ==
    IF mode THEN entry = "dir" \/ (entry = "link" /\ dir.exists)
    ELSE dir.exists

\* A removal that does not ask whether the entry is a link
removeJunctionAnyEntry(entry, dir) ==
    IF entry = "link" /\ dir.exists THEN {"none", "link"}
    ELSE IF entry = "dir" THEN {"none"}
    ELSE {entry}

\* removeJunction(junctionPath): the entries it can leave behind
removeJunction(entry, dir) ==
    IF entry = "link" /\ dir.exists THEN {"none", "link"} ELSE {entry}

\* createJunction(target, link): the entries it can leave behind
createJunction(entry, dir) ==
    IF entry = "none" THEN {"link", "none"}
    ELSE IF entry = "link"
         THEN IF dir.exists THEN {"link", "none"} ELSE {"link"}
    ELSE {"link", "none", "dir"}

\* saveMetadata(skill, targetDir, junctionPath)
\* The object it writes has no isLocalModified field: a reader finds it
\* undefined, which its test takes for false.
saveMetadata(dir, skill, mode) ==
    [dir EXCEPT !.meta = [exists |-> TRUE,
                          installedVersion |-> IF skill.commitSha = NoSha
                                               THEN "unknown"
                                               ELSE skill.commitSha,
                          junctionPath |-> mode,
                          isLocalModified |-> FALSE],
                !.edited = @ \/ dir.repo.committed]

\* isGitAvailable() caches its first answer; initGitRepo then either skips,
\* fails before `git init`, fails after it, or commits.
GitOutcomes(avail) ==
    IF avail = "no" THEN {"skipped"}
    ELSE IF avail = "yes" THEN {"failed", "initOnly", "committed"}
    ELSE {"skipped", "failed", "initOnly", "committed"}

initGitRepo(dir, outcome) ==
    IF outcome = "committed"
    THEN [dir EXCEPT !.repo = [exists |-> TRUE, committed |-> TRUE],
                     !.edited = FALSE]
    ELSE IF outcome = "initOnly"
    THEN [dir EXCEPT !.repo = [exists |-> TRUE, committed |-> dir.repo.committed]]
    ELSE dir

\* checkLocalModified(skillDir): `git status --porcelain` prints something
\* when a .git directory exists and the working tree differs from the
\* committed baseline (with no commit every file is reported).
checkLocalModified(dir) ==
    dir.exists /\ dir.repo.exists /\ (dir.edited \/ ~dir.repo.committed)

\* The catch block of installSkill without its deletion.
RollbackOmitted(dir, removed) == dir

\* The catch block of installSkill: fs.rmSync(actualDir) when it exists;
\* an error of the deletion is logged and swallowed.
Rollback(dir, removed) ==
    IF dir.exists /\ removed THEN NoDir ELSE dir

\* One stage of installSkill and how it ended: "ok" | "failed" | "skipped"
Stage(name, outcome) == [stage |-> name, outcome |-> outcome]

\* The stage a throw from `step` belongs to (the listing and mkdirSync come
\* before the first stage).
FailedStage(step) ==
    IF step \in {"download", "metadata"} THEN <<Stage(step, "failed")>> ELSE <<>>

\* The stages that ended before `step` began: saveMetadata is reached
\* right after the last download has resolved.
StagesBefore(p, step) ==
    IF step = "metadata" THEN Append(hStages[p], Stage("download", "ok"))
    ELSE hStages[p]

\* installSkill's catch block, entered from `step` with the directory as `dir`.
InstallFail(p, step, dir) ==
    \E removed \in (IF dir.exists THEN BOOLEAN ELSE {TRUE}) :
        /\ backing' = Rollback(dir, removed)
        /\ iPc' = [iPc EXCEPT ![p] = "done"]
        /\ iResult' = [iResult EXCEPT ![p] = FALSE]
        /\ hFailedStep' = [hFailedStep EXCEPT ![p] = step]
        /\ hCleanup' = [hCleanup EXCEPT ![p] =
                            IF ~dir.exists THEN "none"
                            ELSE IF removed THEN "removed" ELSE "failed"]
        /\ hStages' = [hStages EXCEPT ![p] = StagesBefore(p, step) \o FailedStage(step)]

\* An installSkill that sends the listing request without the provenance check
installSkillUnchecked(p, skill) ==
    /\ iSkill' = [iSkill EXCEPT ![p] = skill]
    /\ iPc' = [iPc EXCEPT ![p] = "listing"]
    /\ iResult' = [iResult EXCEPT ![p] = FALSE]
    /\ iTotal' = [iTotal EXCEPT ![p] = 0]
    /\ iCompleted' = [iCompleted EXCEPT ![p] = 0]
    /\ hFailedStep' = [hFailedStep EXCEPT ![p] = "none"]
    /\ hCleanup' = [hCleanup EXCEPT ![p] = "none"]
    /\ hStages' = [hStages EXCEPT ![p] = <<>>]

\* installSkill up to its first await: the provenance check, then the
\* listing request.
installSkill(p, skill) ==
    /\ iSkill' = [iSkill EXCEPT ![p] = skill]
    /\ iPc' = [iPc EXCEPT ![p] = IF skill.provenance THEN "listing" ELSE "done"]
    /\ iResult' = [iResult EXCEPT ![p] = FALSE]
    /\ iTotal' = [iTotal EXCEPT ![p] = 0]
    /\ iCompleted' = [iCompleted EXCEPT ![p] = 0]
    /\ hFailedStep' = [hFailedStep EXCEPT ![p] =
                           IF skill.provenance THEN "none" ELSE "provenance"]
    /\ hCleanup' = [hCleanup EXCEPT ![p] = "none"]
    /\ hStages' = [hStages EXCEPT ![p] = <<>>]

\* What the contents API lists for the package's directory when it holds n
\* files: the files, numbered from 1, and an entry of type dir (numbered 0)
\* when the package has sub-directories.
PackageListing(n) ==
    {File(k) : k \in 1..n} \cup (IF remoteSubdirs THEN {Dir(0)} ELSE {})

\* fetchSkillFiles: `items.filter(item => item.type === 'file')`, one
\* request for the package's directory and none for what is below it.
fetchSkillFiles(items) == {i.name : i \in {j \in items : j.type = "file"}}

\* The entry is in the local directory `dir`: downloadFile writes files
\* only, each to path.join(actualDir, file.name).
Downloaded(dir, item) == item.type = "file" /\ item.name \in dir.files

\* fetchSkillFiles answered: the listing failed, was empty, or named n files;
\* then mkdirSync and the first download request.
InstallListed(p) ==
    /\ iPc[p] = "listing"
    /\ \E ok \in BOOLEAN, n \in 0..MaxFiles, mkdirOk \in BOOLEAN :
        /\ ok \/ n = 0
        /\ backing.exists \/ ~ok \/ n = 0 => mkdirOk
        /\ IF ~ok
           THEN InstallFail(p, "listing", backing) /\ UNCHANGED <<iTotal, iCompleted>>
           ELSE IF n = 0
           THEN InstallFail(p, "nofiles", backing) /\ UNCHANGED <<iTotal, iCompleted>>
           ELSE IF ~backing.exists /\ ~mkdirOk
           THEN InstallFail(p, "mkdir", backing) /\ UNCHANGED <<iTotal, iCompleted>>
           ELSE /\ backing' = IF backing.exists THEN backing ELSE EmptyDir
                /\ iPc' = [iPc EXCEPT ![p] = "downloading"]
                /\ iTotal' = [iTotal EXCEPT ![p] =
                                  Cardinality(fetchSkillFiles(PackageListing(n)))]
                /\ iCompleted' = [iCompleted EXCEPT ![p] = 0]
                /\ UNCHANGED <<iResult, instHist>>
    /\ UNCHANGED <<storageMode, toolEntry, gitAvailable, iOp, iSkill, iAttempt, iDelay, hRefEntry, hProgress>>

\* The same stages with the link created first
FinishStagesLinkFirst(git, mode, linked) ==
    (IF mode THEN <<Stage("link", IF linked THEN "ok" ELSE "failed")>> ELSE <<>>)
    \o <<Stage("metadata", "ok"),
          Stage("git", IF git = "committed" THEN "ok"
                       ELSE IF git = "skipped" THEN "skipped" ELSE "failed")>>

\* The stages installSkill runs after a successful saveMetadata, in the
\* order of its statements: saveMetadata, initGitRepo (which catches its
\* own errors), createJunction (only with a storage path).
FinishStages(git, mode, linked) ==
    <<Stage("metadata", "ok"),
      Stage("git", IF git = "committed" THEN "ok"
                   ELSE IF git = "skipped" THEN "skipped" ELSE "failed")>>
    \o (IF mode THEN <<Stage("link", IF linked THEN "ok" ELSE "failed")>> ELSE <<>>)

\* Step 6 of installSkill before createJunction: getInstallPath() and, when
\* the directory it names is missing, mkdirSync, both inside the try block
\* and neither caught on the spot.  With an entry at junctionDir the
\* directory is there; otherwise resolving or creating it can throw.
LinkDirOutcomes(mode, entry) ==
    IF mode /\ entry = "none" THEN BOOLEAN ELSE {TRUE}

\* The tail of installSkill after the last download: saveMetadata,
\* initGitRepo, createJunction, return true.
InstallFinish(p, dir) ==
    \E metaOk \in BOOLEAN :
        IF ~metaOk
        THEN InstallFail(p, "metadata", dir) /\ UNCHANGED <<toolEntry, gitAvailable>>
        ELSE \E git \in GitOutcomes(gitAvailable),
                pathOk \in LinkDirOutcomes(storageMode, toolEntry) :
             LET installed == initGitRepo(saveMetadata(dir, iSkill[p], storageMode), git)
             IN  /\ gitAvailable' = IF git = "skipped" THEN "no" ELSE "yes"
                 /\ IF pathOk
                    THEN /\ backing' = installed
                         /\ toolEntry' \in (IF storageMode
                                            THEN createJunction(toolEntry, installed)
                                            ELSE {toolEntry})
                         /\ iPc' = [iPc EXCEPT ![p] = "done"]
                         /\ iResult' = [iResult EXCEPT ![p] = TRUE]
                         /\ hStages' = [hStages EXCEPT ![p] =
                                            StagesBefore(p, "metadata")
                                            \o FinishStages(git, storageMode,
                                                            toolEntry' = "link")]
                         /\ UNCHANGED <<hFailedStep, hCleanup>>
                    ELSE \E removed \in BOOLEAN :
                         /\ backing' = Rollback(installed, removed)
                         /\ toolEntry' = toolEntry
                         /\ iPc' = [iPc EXCEPT ![p] = "done"]
                         /\ iResult' = [iResult EXCEPT ![p] = FALSE]
                         /\ hFailedStep' = [hFailedStep EXCEPT ![p] = "linkdir"]
                         /\ hCleanup' = [hCleanup EXCEPT ![p] =
                                             IF removed THEN "removed" ELSE "failed"]
                         /\ hStages' = [hStages EXCEPT ![p] =
                                            StagesBefore(p, "metadata")
                                            \o FinishStages(git, storageMode, FALSE)]

\* A loop that reports the file before it knows how the download ended
ProgressAfterAttempt(p, k, downloaded) ==
    Append(hProgress[p], <<k, iTotal[p]>>)

\* `await this.downloadFile(...); completed++; if (onProgress)
\* onProgress(completed, total);`: the callback runs once the await has
\* resolved; a rejected await leaves the loop before it.
ProgressAfter(p, k, downloaded) ==
    IF downloaded THEN Append(hProgress[p], <<k, iTotal[p]>>) ELSE hProgress[p]

\* downloadFile answered for file completed + 1: written, or failed (a
\* write into a directory that is gone fails too).
InstallDownloaded(p) ==
    /\ iPc[p] = "downloading"
    /\ LET k == iCompleted[p] + 1
           written == [backing EXCEPT !.files = @ \cup {k},
                                      !.edited = @ \/ backing.repo.committed]
       IN  \E ok \in BOOLEAN :
            /\ iCompleted' = [iCompleted EXCEPT ![p] = IF ok /\ backing.exists THEN k ELSE @]
            /\ hProgress' = [hProgress EXCEPT ![p] =
                                ProgressAfter(p, k, ok /\ backing.exists)]
            /\ IF ~ok \/ ~backing.exists
               THEN InstallFail(p, "download", backing)
                    /\ UNCHANGED <<toolEntry, gitAvailable>>
               ELSE IF k < iTotal[p]
               THEN /\ backing' = written
                    /\ hStages' = [hStages EXCEPT ![p] = Append(@, Stage("download", "ok"))]
                    /\ UNCHANGED <<toolEntry, gitAvailable, iPc, iResult, hFailedStep,
                                   hCleanup>>
               ELSE InstallFinish(p, written)
    /\ UNCHANGED <<storageMode, iOp, iSkill, iTotal, iAttempt, iDelay, hRefEntry>>

\* uninstallSkill with a storage path, its unlink succeeding: a link at
\* junctionDir is removed, anything else is left.
UnlinkedEntry(entry) == IF entry = "link" THEN "none" ELSE entry

\* What follows `await safeRemoveDir(actualDir)` once the directory `dir` is
\* gone: uninstallSkill returns true; updateSkill removes the link when
\* junctionDir is one, then runs installSkill up to its first await.
AfterRemove(p, op, skill, dir) ==
    IF op = "uninstall"
    THEN /\ iPc' = [iPc EXCEPT ![p] = "done"]
         /\ iResult' = [iResult EXCEPT ![p] = TRUE]
         /\ UNCHANGED <<toolEntry, iSkill, iTotal, iCompleted, instHist>>
    ELSE /\ toolEntry' \in (IF storageMode THEN removeJunction(toolEntry, dir)
                            ELSE {toolEntry})
         /\ installSkill(p, skill)

\* uninstallSkill up to its first await
uninstallSkill(p) ==
    /\ iOp' = [iOp EXCEPT ![p] = "uninstall"]
    /\ IF ~existsJunctionDir(storageMode, toolEntry, backing) /\ ~backing.exists
       THEN /\ iPc' = [iPc EXCEPT ![p] = "done"]
            /\ iResult' = [iResult EXCEPT ![p] = FALSE]
            /\ UNCHANGED <<toolEntry, iAttempt>>
       ELSE /\ toolEntry' \in (IF storageMode THEN removeJunction(toolEntry, backing)
                               ELSE {toolEntry})
            /\ IF backing.exists
               THEN /\ iPc' = [iPc EXCEPT ![p] = "rm"]
                    /\ iAttempt' = [iAttempt EXCEPT ![p] = 0]
                    /\ UNCHANGED iResult
               ELSE /\ iPc' = [iPc EXCEPT ![p] = "done"]
                    /\ iResult' = [iResult EXCEPT ![p] = TRUE]
                    /\ UNCHANGED iAttempt
    /\ UNCHANGED <<storageMode, backing, gitAvailable, iSkill, iTotal, iCompleted,
                   iDelay, instHist, hRefEntry, hProgress>>

\* updateSkill up to its first await
updateSkill(p, skill) ==
    /\ iOp' = [iOp EXCEPT ![p] = "update"]
    /\ IF backing.exists
       THEN /\ iPc' = [iPc EXCEPT ![p] = "rm"]
            /\ iAttempt' = [iAttempt EXCEPT ![p] = 0]
            /\ iSkill' = [iSkill EXCEPT ![p] = skill]
            /\ UNCHANGED <<toolEntry, iResult, iTotal, iCompleted, instHist>>
       ELSE /\ AfterRemove(p, "update", skill, backing)
            /\ UNCHANGED iAttempt
    /\ UNCHANGED hProgress
    /\ hRefEntry' = [hRefEntry EXCEPT ![p] =
                          IF storageMode /\ existsJunctionDir(storageMode, toolEntry, backing)
                          THEN UnlinkedEntry(toolEntry)
                          ELSE toolEntry]
    /\ UNCHANGED <<storageMode, backing, gitAvailable, iDelay>>

RECURSIVE Pow2(_)
Pow2(n) == IF n = 0 THEN 1 ELSE 2 * Pow2(n - 1)

\* A backoff that waits the same time after every failure
BackoffDelayFlat(i) == 200

\* safeRemoveDir: delay = 200 * Math.pow(2, i)
BackoffDelay(i) == 200 * Pow2(i)

\* safeRemoveDir: fsPromises.rm answered.  A failure of the last attempt is
\* thrown, and both callers then return false.
RemoveAnswered(p) ==
    /\ iPc[p] = "rm"
    /\ \E ok \in BOOLEAN :
        IF ok
        THEN /\ backing' = NoDir
             /\ iAttempt' = [iAttempt EXCEPT ![p] = 0]
             /\ UNCHANGED iDelay
             /\ AfterRemove(p, iOp[p], iSkill[p], NoDir)
        ELSE /\ iPc' = [iPc EXCEPT ![p] = IF iAttempt[p] = MaxRetries - 1
                                           THEN "done" ELSE "backoff"]
             /\ iDelay' = [iDelay EXCEPT ![p] = IF iAttempt[p] = MaxRetries - 1
                                                 THEN 0 ELSE BackoffDelay(iAttempt[p])]
             /\ iAttempt' = [iAttempt EXCEPT ![p] = IF @ = MaxRetries - 1 THEN 0 ELSE @]
             /\ iResult' = [iResult EXCEPT ![p] = FALSE]
             /\ UNCHANGED <<backing, toolEntry, iSkill, iTotal, iCompleted, instHist>>
    /\ UNCHANGED <<storageMode, gitAvailable, iOp, hRefEntry, hProgress>>

\* safeRemoveDir: the backoff timer fired; the next attempt begins.
BackoffElapsed(p) ==
    /\ iPc[p] = "backoff"
    /\ iDelay' = [iDelay EXCEPT ![p] = 0]
    /\ IF backing.exists
       THEN /\ iPc' = [iPc EXCEPT ![p] = "rm"]
            /\ iAttempt' = [iAttempt EXCEPT ![p] = @ + 1]
            /\ UNCHANGED <<toolEntry, iResult, iSkill, iTotal, iCompleted, instHist>>
       ELSE /\ iAttempt' = [iAttempt EXCEPT ![p] = 0]
            /\ AfterRemove(p, iOp[p], iSkill[p], backing)
    /\ UNCHANGED <<storageMode, backing, gitAvailable, iOp, hRefEntry, hProgress>>

\* The caller has read the call's result; its locals are gone.
SlotReleased(p) ==
    /\ iPc' = [iPc EXCEPT ![p] = "idle"]
    /\ iOp' = [iOp EXCEPT ![p] = "none"]
    /\ iSkill' = [iSkill EXCEPT ![p] = NoSkill]
    /\ iTotal' = [iTotal EXCEPT ![p] = 0]
    /\ iCompleted' = [iCompleted EXCEPT ![p] = 0]
    /\ iAttempt' = [iAttempt EXCEPT ![p] = 0]
    /\ iDelay' = [iDelay EXCEPT ![p] = 0]
    /\ iResult' = [iResult EXCEPT ![p] = FALSE]
    /\ hFailedStep' = [hFailedStep EXCEPT ![p] = "none"]
    /\ hCleanup' = [hCleanup EXCEPT ![p] = "none"]
    /\ hStages' = [hStages EXCEPT ![p] = <<>>]
    /\ hRefEntry' = [hRefEntry EXCEPT ![p] = "none"]
    /\ hProgress' = [hProgress EXCEPT ![p] = <<>>]

NoCallRunning == \A q \in Calls : iPc[q] = "idle"

\* ---- the installer called on its own, one call at a time
InstallCall(p) ==
    /\ NoCallRunning
    /\ \E skill \in Skills :
        /\ iOp' = [iOp EXCEPT ![p] = "install"]
        /\ installSkill(p, skill)
    /\ UNCHANGED <<fsVars, iAttempt, iDelay, hRefEntry, hProgress, provVars, idVars, fetchVars, updVars, pathVars, catVars, treeVars, reloadVars>>

UninstallCall(p) ==
    /\ NoCallRunning
    /\ uninstallSkill(p)
    /\ UNCHANGED <<provVars, idVars, fetchVars, updVars, pathVars, catVars, treeVars, reloadVars>>

UpdateCall(p) ==
    /\ NoCallRunning
    /\ \E skill \in Skills : updateSkill(p, skill)
    /\ UNCHANGED <<provVars, idVars, fetchVars, updVars, pathVars, catVars, treeVars, reloadVars>>

CallReturn(p) ==
    /\ iPc[p] = "done"
    /\ SlotReleased(p)
    /\ UNCHANGED <<fsVars, provVars, idVars, fetchVars, updVars, pathVars, catVars, treeVars, reloadVars>>

\* The user changes a file of the installed package.
UserEdit ==
    /\ backing.exists
    /\ backing.files # {}
    /\ ~backing.edited
    /\ backing' = [backing EXCEPT !.edited = TRUE]
    /\ UNCHANGED <<storageMode, toolEntry, gitAvailable, slotVars, instHist, hRefEntry, hProgress,
                   provVars, idVars, fetchVars, updVars, pathVars, catVars, treeVars, reloadVars>>

ListingResponse(p) == InstallListed(p) /\ UNCHANGED <<provVars, idVars, fetchVars, updVars, pathVars, catVars, treeVars, reloadVars>>
DownloadResponse(p) == InstallDownloaded(p) /\ UNCHANGED <<provVars, idVars, fetchVars, updVars, pathVars, catVars, treeVars, reloadVars>>
RemoveResponse(p) == RemoveAnswered(p) /\ UNCHANGED <<provVars, idVars, fetchVars, updVars, pathVars, catVars, treeVars, reloadVars>>
BackoffTimer(p) == BackoffElapsed(p) /\ UNCHANGED <<provVars, idVars, fetchVars, updVars, pathVars, catVars, treeVars, reloadVars>>

InstInit ==
    /\ IdStart
    /\ idSkillId = MakeId(SrcA, DirF)
    /\ FetchIdle
    /\ ProvRest
    /\ UpdRest
    /\ ReloadRest
    /\ CatRest
    /\ remoteSubdirs \in BOOLEAN
    /\ PathRest
    /\ storageMode \in BOOLEAN
    /\ backing = NoDir
    /\ toolEntry \in (IF storageMode THEN {"none", "dir"} ELSE {"none"})
    /\ gitAvailable = "unknown"
    /\ SlotsIdle

InstNext ==
    \E p \in Calls :
        \/ InstallCall(p)
        \/ UninstallCall(p)
        \/ UpdateCall(p)
        \/ ListingResponse(p)
        \/ DownloadResponse(p)
        \/ RemoveResponse(p)
        \/ BackoffTimer(p)
        \/ CallReturn(p)
        \/ UserEdit

SpecInstall == InstInit /\ [][InstNext]_vars

\* The deletion request is answered and the backoff timer fires.
InstFairness ==
    \A p \in Calls : WF_vars(RemoveResponse(p)) /\ WF_vars(BackoffTimer(p))

SpecInstallLive == SpecInstall /\ InstFairness

(***************************************************************************)
(* Update check and restore: checkUpdates, restoreOfficialVersion          *)
(***************************************************************************)
\* A directory the previous installer (services/SkillInstaller.ts) wrote:
\* files in the install path, no .metadata.json, no repository.
LegacyDir == [EmptyDir EXCEPT !.files = {1}]

\* What generateLegacyMetadata writes (no isLocalModified field).
LegacyMeta == [exists |-> TRUE, installedVersion |-> "legacy", junctionPath |-> FALSE,
               isLocalModified |-> FALSE]

\* The package's entry of readdirSync(installPath, {withFileTypes: true}) when
\* entry.isDirectory() holds: actualDir itself without a storage path, a plain
\* directory at junctionDir with one.  A link is not a directory entry.
ScannedDir ==
    IF ~storageMode THEN backing
    ELSE IF toolEntry = "dir" THEN [EmptyDir EXCEPT !.meta = plainMeta]
    ELSE NoDir

\* The revisions checkUpdates can find for the package in allSkills; NoSha:
\* the package is not in the list or has no commitSha.
LatestShas == {NoSha, "r1", "r2"}

\* A check that takes a legacy installation for an outdated one
updateEntryOfLegacyOutdated(meta, latest) ==
    IF meta.isLocalModified \/ latest = NoSha THEN NoUpdate
    ELSE [set |-> TRUE,
          hasUpdate |-> meta.installedVersion # latest,
          installedVersion |-> meta.installedVersion,
          latestVersion |-> latest]

\* The body of checkUpdates' loop once the metadata is read: the entry it
\* sets in updateMap for the package.
updateEntryOf(meta, latest) ==
    IF meta.isLocalModified \/ latest = NoSha THEN NoUpdate
    ELSE [set |-> TRUE,
          hasUpdate |-> meta.installedVersion # latest /\ meta.installedVersion # "legacy",
          installedVersion |-> meta.installedVersion,
          latestVersion |-> latest]

\* generateLegacyMetadata(skillId, skillDir): writeFileSync of the file
WithMeta(meta) ==
    /\ backing' = IF storageMode THEN backing ELSE [backing EXCEPT !.meta = meta]
    /\ plainMeta' = IF storageMode THEN meta ELSE plainMeta

\* checkUpdates(allSkills): it has no await, so the call is one step.  A
\* failing writeFileSync is not caught: the call throws.
checkUpdates ==
    /\ uResult = "none"
    /\ \E latest \in LatestShas, writeOk \in BOOLEAN :
        LET dir == ScannedDir
        IN  /\ (~dir.exists \/ dir.meta.exists) => writeOk
            /\ hChecked' = [isDir |-> dir.exists,
                            hadMeta |-> dir.meta.exists,
                            version |-> IF ~dir.exists \/ (~dir.meta.exists /\ ~writeOk)
                                        THEN "none"
                                        ELSE IF dir.meta.exists
                                        THEN dir.meta.installedVersion
                                        ELSE LegacyMeta.installedVersion,
                            modified |-> checkLocalModified(dir)]
            /\ IF ~dir.exists
               THEN /\ uResult' = "returned"
                    /\ updateMap' = NoUpdate
                    /\ UNCHANGED <<backing, plainMeta>>
               ELSE IF dir.meta.exists
               THEN /\ uResult' = "returned"
                    /\ updateMap' = updateEntryOf(dir.meta, latest)
                    /\ UNCHANGED <<backing, plainMeta>>
               ELSE IF writeOk
               THEN /\ uResult' = "returned"
                    /\ updateMap' = updateEntryOf(LegacyMeta, latest)
                    /\ WithMeta(LegacyMeta)
               ELSE /\ uResult' = "thrown"
                    /\ updateMap' = NoUpdate
                    /\ UNCHANGED <<backing, plainMeta>>
    /\ UNCHANGED <<storageMode, toolEntry, gitAvailable, slotVars, instHist, hRefEntry, hProgress,
                   hRestore>>

\* The entry a checkUpdates run now would set for the package when the
\* list gives it the revision `latest`.
EntryNow(latest) ==
    LET dir == ScannedDir
    IN  IF ~dir.exists THEN NoUpdate
        ELSE updateEntryOf(IF dir.meta.exists THEN dir.meta ELSE LegacyMeta, latest)

\* restoreToOfficialVersion(skillDir): `git checkout .` and `git clean -fd`
\* can succeed only on a committed baseline; a failure is caught.
RestoreOutcomes(dir) ==
    IF ~dir.repo.exists THEN {"norepo"}
    ELSE IF dir.repo.committed THEN {"ok", "failed"}
    ELSE {"failed"}

\* A restore that reinstalls whatever the local repository answered
reinstallsAfterAlways(outcome) == TRUE

\* restoreOfficialVersion falls through to removal and reinstall unless the
\* local restore returned true.
reinstallsAfter(outcome) == outcome # "ok"

\* restoreOfficialVersion up to its first await that yields
restoreOfficialVersion(p, skill) ==
    /\ iOp' = [iOp EXCEPT ![p] = "restore"]
    /\ \E outcome \in RestoreOutcomes(backing) :
        /\ hRestore' = [hRestore EXCEPT ![p] = outcome]
        /\ IF ~reinstallsAfter(outcome)
           THEN /\ backing' = [backing EXCEPT !.edited = FALSE]
                /\ iPc' = [iPc EXCEPT ![p] = "done"]
                /\ iResult' = [iResult EXCEPT ![p] = TRUE]
                /\ UNCHANGED <<toolEntry, iSkill, iTotal, iCompleted, iAttempt, instHist>>
           ELSE IF backing.exists
           THEN /\ iPc' = [iPc EXCEPT ![p] = "rm"]
                /\ iAttempt' = [iAttempt EXCEPT ![p] = 0]
                /\ iSkill' = [iSkill EXCEPT ![p] = skill]
                /\ UNCHANGED <<backing, toolEntry, iResult, iTotal, iCompleted, instHist>>
           ELSE /\ AfterRemove(p, "restore", skill, backing)
                /\ UNCHANGED <<backing, iAttempt>>
    /\ UNCHANGED <<storageMode, gitAvailable, iDelay, hRefEntry, hProgress>>

\* ---- the installer's maintenance calls, one installer call at a time; an
\* update check can run whenever the event loop is free
CheckUpdatesCall ==
    /\ checkUpdates
    /\ UNCHANGED <<provVars, idVars, fetchVars, pathVars, catVars, treeVars, reloadVars>>

\* The caller has read the Map (or caught the error).
CheckUpdatesReturn ==
    /\ uResult # "none"
    /\ uResult' = "none"
    /\ updateMap' = NoUpdate
    /\ hChecked' = NotChecked
    /\ UNCHANGED <<plainMeta, hRestore, instVars, provVars, idVars, fetchVars, pathVars, catVars, treeVars, reloadVars>>

RestoreCall(p) ==
    /\ NoCallRunning
    /\ \E skill \in Skills : restoreOfficialVersion(p, skill)
    /\ UNCHANGED <<plainMeta, uResult, updateMap, hChecked, provVars, idVars, fetchVars, pathVars, catVars, treeVars, reloadVars>>

\* A call of this specification returns: its restore history goes with it.
MaintReturn(p) ==
    /\ iPc[p] = "done"
    /\ SlotReleased(p)
    /\ hRestore' = [hRestore EXCEPT ![p] = "none"]
    /\ UNCHANGED <<fsVars, plainMeta, uResult, updateMap, hChecked, provVars, idVars,
                   fetchVars, pathVars, catVars, treeVars, reloadVars>>

UpdInit ==
    /\ IdStart
    /\ idSkillId = MakeId(SrcA, DirF)
    /\ FetchIdle
    /\ ProvRest
    /\ UpdRest
    /\ ReloadRest
    /\ CatRest
    /\ TreeRest
    /\ PathRest
    /\ storageMode \in BOOLEAN
    /\ backing \in (IF storageMode THEN {NoDir} ELSE {NoDir, LegacyDir})
    /\ toolEntry \in (IF storageMode THEN {"none", "dir"} ELSE {"none"})
    /\ gitAvailable = "unknown"
    /\ SlotsIdle

\* Calls run one at a time here, so one slot carries them all.
UpdNext ==
    \/ CheckUpdatesCall
    \/ CheckUpdatesReturn
    \/ UserEdit
    \/ \E p \in {"h1"} :
        \/ InstallCall(p)
        \/ UninstallCall(p)
        \/ UpdateCall(p)
        \/ RestoreCall(p)
        \/ ListingResponse(p)
        \/ DownloadResponse(p)
        \/ RemoveResponse(p)
        \/ BackoffTimer(p)
        \/ MaintReturn(p)

SpecUpdates == UpdInit /\ [][UpdNext]_vars

(***************************************************************************)
(* Provider: the command handlers of SkillMarketplaceViewProvider          *)
(*                                                                         *)
(* onDidReceiveMessage starts a handler for every command it receives and  *)
(* does not wait for it; each handler in flight owns one installer call.   *)
(***************************************************************************)
Listed == [commitSha |-> "r1", isInstalled |-> FALSE, hasUpdate |-> FALSE,
           installedVersion |-> NoSha, isLocalModified |-> FALSE]

\* The Skill object the handlers find in _allSkills.
FoundSkill == [commitSha |-> pAllSkills.commitSha, provenance |-> TRUE]

\* case 'install': _handleInstall up to the first await of installSkill
\* A handler resumes right after its installer call has resolved, before
\* any other callback runs: nothing else happens while a result is unread.
NoTailPending == \A q \in Calls : iPc[q] # "done"

HandleInstall(p) ==
    /\ NoTailPending
    /\ iPc[p] = "idle"
    /\ iOp' = [iOp EXCEPT ![p] = "install"]
    /\ installSkill(p, FoundSkill)
    /\ UNCHANGED <<fsVars, iAttempt, iDelay, hRefEntry, hProgress, provVars, idVars, fetchVars, updVars, pathVars, catVars, treeVars, reloadVars>>

\* case 'uninstall': _handleUninstall up to the first await of uninstallSkill
HandleUninstall(p) ==
    /\ NoTailPending
    /\ iPc[p] = "idle"
    /\ uninstallSkill(p)
    /\ UNCHANGED <<provVars, idVars, fetchVars, updVars, pathVars, catVars, treeVars, reloadVars>>

\* case 'update': _handleUpdate up to the first await of updateSkill
HandleUpdate(p) ==
    /\ NoTailPending
    /\ iPc[p] = "idle"
    /\ updateSkill(p, FoundSkill)
    /\ UNCHANGED <<provVars, idVars, fetchVars, updVars, pathVars, catVars, treeVars, reloadVars>>

\* case 'restoreOfficial': _handleRestoreOfficial from the moment the user
\* confirms the modal warning, up to the first await of
\* restoreOfficialVersion that yields (a declined warning ends the handler
\* with nothing done).
HandleRestore(p) ==
    /\ NoTailPending
    /\ iPc[p] = "idle"
    /\ restoreOfficialVersion(p, FoundSkill)
    /\ UNCHANGED <<plainMeta, uResult, updateMap, hChecked, provVars, idVars, fetchVars, pathVars, catVars, treeVars, reloadVars>>

\* The handler's code after `await this._installer....`: on success it
\* rewrites the flags of the Skill object it found when it began (an entry
\* of the list only while that list is still this._allSkills) and posts
\* updateSkills with this._allSkills.
HandlerFlags(entry, op) ==
    IF op = "install" THEN [entry EXCEPT !.isInstalled = TRUE]
    ELSE IF op = "uninstall" THEN [entry EXCEPT !.isInstalled = FALSE]
    ELSE IF op = "update"
    THEN [entry EXCEPT !.hasUpdate = FALSE, !.installedVersion = entry.commitSha]
    ELSE [entry EXCEPT !.isLocalModified = FALSE, !.hasUpdate = FALSE,
                       !.installedVersion = entry.commitSha, !.isInstalled = TRUE]

\* The directory a path under the install path resolves to: the target of
\* the link, or nothing of the marketplace's.
DirAtToolPath == IF toolEntry = "link" THEN backing ELSE NoDir

\* The file watcher's debounced callback: _updateLocalModifiedStatus
WatcherRefresh ==
    /\ NoTailPending
    /\ pAllSkills.isInstalled
    /\ pAllSkills' = [pAllSkills EXCEPT !.isLocalModified =
                                            checkLocalModified(DirAtToolPath)]
    /\ viewSkills' = IF pAllSkills' # pAllSkills THEN pAllSkills' ELSE viewSkills
    /\ UNCHANGED <<hPushed, instVars, idVars, fetchVars, updVars, pathVars, catVars, treeVars, reloadVars>>

HandlerDone(p) ==
    /\ iPc[p] = "done"
    /\ pAllSkills' = IF iResult[p] /\ ~pDetached[p]
                     THEN HandlerFlags(pAllSkills, iOp[p]) ELSE pAllSkills
    /\ viewSkills' = IF iResult[p] THEN pAllSkills' ELSE viewSkills
    /\ hPushed' = iResult[p]
    /\ pDetached' = [pDetached EXCEPT ![p] = FALSE]
    /\ hDuring' = (hDuring \/ (pReload = "fetching" /\ iResult[p] /\ iOp[p] = "install"))
    /\ SlotReleased(p)
    /\ hRestore' = [hRestore EXCEPT ![p] = "none"]
    /\ UNCHANGED <<fsVars, plainMeta, uResult, updateMap, hChecked, pReload, idVars,
                   fetchVars, pathVars, catVars, treeVars>>

ProvInit ==
    /\ IdStart
    /\ idSkillId = MakeId(SrcA, DirF)
    /\ FetchIdle
    /\ storageMode = TRUE
    /\ backing = NoDir
    /\ toolEntry = "none"
    /\ gitAvailable = "unknown"
    /\ SlotsIdle
    /\ UpdRest
    /\ ReloadRest
    /\ CatRest
    /\ TreeRest
    /\ PathRest
    /\ pAllSkills = Listed
    /\ viewSkills = Listed
    /\ hPushed = TRUE

\* The installer's callbacks and the user, as the provider's event loop
\* runs them.
OnListing(p) == NoTailPending /\ ListingResponse(p)
OnDownload(p) == NoTailPending /\ DownloadResponse(p)
OnRemove(p) == NoTailPending /\ RemoveResponse(p)
OnBackoff(p) == NoTailPending /\ BackoffTimer(p)
OnUserEdit == NoTailPending /\ UserEdit

ProvNext ==
    \E p \in Calls :
        \/ HandleInstall(p)
        \/ HandleUninstall(p)
        \/ HandleUpdate(p)
        \/ OnListing(p)
        \/ OnDownload(p)
        \/ OnRemove(p)
        \/ OnBackoff(p)
        \/ HandlerDone(p)
        \/ OnUserEdit
        \/ WatcherRefresh

SpecProvider == ProvInit /\ [][ProvNext]_vars

\* ---- the commands of the presentation layer, each handled to its end
\* before the next arrives (one slot carries them all)
CmdNext ==
    \/ OnUserEdit
    \/ WatcherRefresh
    \/ \E p \in {"h1"} :
        \/ HandleInstall(p)
        \/ HandleUninstall(p)
        \/ HandleUpdate(p)
        \/ HandleRestore(p)
        \/ OnListing(p)
        \/ OnDownload(p)
        \/ OnRemove(p)
        \/ OnBackoff(p)
        \/ HandlerDone(p)

SpecCommands == ProvInit /\ [][CmdNext]_vars

(***************************************************************************)
(* Install path resolution: SkillInstaller.getInstallPath                  *)
(*                                                                         *)
(* agentRootDir and globalPath speak of the directories of the configured  *)
(* agent; the skills directory lies inside the root marker directory.      *)
(***************************************************************************)
\* The agents AgentManager registers; any other agentType has none.
AgentIds == {"antigravity", "gemini", "claude", "codex", "opencode"}
AgentTypes == AgentIds \cup {"unknown"}

\* AgentManager.getAgent(id) is defined
getAgent(id) == id \in AgentIds

\* `if (throwOnMissing) throw ...; return '';`
Missing(throwOnMissing) ==
    [result |-> IF throwOnMissing THEN "thrown" ELSE "empty", created |-> FALSE]

PathFound(created) == [result |-> "path", created |-> created]

\* A resolver that creates the skills directory without looking for the
\* agent's root first
getInstallPathNoRootCheck(throwOnMissing, mkdirOk) ==
    IF ~getAgent(agentType) THEN Missing(throwOnMissing)
    ELSE IF scope = "project"
    THEN IF ~workspaceOpen THEN Missing(throwOnMissing) ELSE PathFound(FALSE)
    ELSE IF ~globalPath
    THEN IF mkdirOk THEN PathFound(TRUE) ELSE Missing(throwOnMissing)
    ELSE PathFound(FALSE)

\* A resolver that throws whatever throwOnMissing says
getInstallPathAlwaysThrows(throwOnMissing, mkdirOk) ==
    IF ~getAgent(agentType) THEN Missing(TRUE)
    ELSE IF scope = "project"
    THEN IF ~workspaceOpen THEN Missing(TRUE) ELSE PathFound(FALSE)
    ELSE IF ~agentRootDir THEN Missing(TRUE)
    ELSE IF ~globalPath
    THEN IF mkdirOk THEN PathFound(TRUE) ELSE Missing(TRUE)
    ELSE PathFound(FALSE)

\* getInstallPath(throwOnMissing): what it answers and whether it created
\* the skills directory (mkdirSync, which can fail, runs only in global
\* scope with the root present and the directory missing).  No registered
\* agent defines validate.
getInstallPath(throwOnMissing, mkdirOk) ==
    IF ~getAgent(agentType) THEN Missing(throwOnMissing)
    ELSE IF scope = "project"
    THEN IF ~workspaceOpen THEN Missing(throwOnMissing) ELSE PathFound(FALSE)
    ELSE IF ~agentRootDir THEN Missing(throwOnMissing)
    ELSE IF ~globalPath
    THEN IF mkdirOk THEN PathFound(TRUE) ELSE Missing(throwOnMissing)
    ELSE PathFound(FALSE)

\* mkdirSync is reached
MkdirReached ==
    getAgent(agentType) /\ scope = "global" /\ agentRootDir /\ ~globalPath

GetInstallPathCall ==
    /\ gipResult = "none"
    /\ \E throwOnMissing \in BOOLEAN,
          mkdirOk \in (IF MkdirReached THEN BOOLEAN ELSE {TRUE}) :
        LET r == getInstallPath(throwOnMissing, mkdirOk)
        IN  /\ gipThrow' = throwOnMissing
            /\ gipResult' = r.result
            /\ globalPath' = (globalPath \/ r.created)
            /\ agentRootDir' = (agentRootDir \/ r.created)
    /\ UNCHANGED <<agentType, scope, workspaceOpen, idVars, fetchVars, instVars,
                   provVars, updVars, catVars, treeVars, reloadVars>>

\* The caller has the answer (or has caught the error).
GetInstallPathReturn ==
    /\ gipResult # "none"
    /\ gipResult' = "none"
    /\ UNCHANGED <<pathEnv, gipThrow, idVars, fetchVars, instVars, provVars, updVars, catVars, treeVars, reloadVars>>

\* The user changes the antigravity.agentType or installScope setting,
\* opens or closes a workspace, installs or removes an agent tool.
PathEnvs ==
    {e \in [agentType : AgentTypes, scope : {"global", "project"},
            workspaceOpen : BOOLEAN, agentRootDir : BOOLEAN, globalPath : BOOLEAN] :
        e.globalPath => e.agentRootDir}

EnvChanged ==
    /\ gipResult = "none"
    /\ \E e \in PathEnvs :
        /\ agentType' = e.agentType
        /\ scope' = e.scope
        /\ workspaceOpen' = e.workspaceOpen
        /\ agentRootDir' = e.agentRootDir
        /\ globalPath' = e.globalPath
    /\ UNCHANGED <<gipThrow, gipResult, idVars, fetchVars, instVars, provVars, updVars, catVars, treeVars, reloadVars>>

PathInit ==
    /\ IdStart
    /\ idSkillId = MakeId(SrcA, DirF)
    /\ FetchIdle
    /\ InstRest
    /\ ProvRest
    /\ UpdRest
    /\ ReloadRest
    /\ CatRest
    /\ TreeRest
    /\ PathRest

PathNext == GetInstallPathCall \/ GetInstallPathReturn \/ EnvChanged

SpecPath == PathInit /\ [][PathNext]_vars

\* ---- uninstallSkill together with the path resolution it starts with
\* `path.join(this.getInstallPath(), safeDirName)` runs before the existence
\* test and outside the try block: an error of getInstallPath leaves the
\* call, and the skills directory it creates stays.
UninstallFromPath(p) ==
    /\ NoCallRunning
    /\ gipResult = "none"
    /\ \E mkdirOk \in (IF MkdirReached THEN BOOLEAN ELSE {TRUE}) :
        LET r == getInstallPath(TRUE, mkdirOk)
        IN  /\ gipThrow' = TRUE
            /\ gipResult' = r.result
            /\ globalPath' = (globalPath \/ r.created)
            /\ agentRootDir' = (agentRootDir \/ r.created)
            /\ IF r.result = "thrown"
               THEN /\ iOp' = [iOp EXCEPT ![p] = "uninstall"]
                    /\ iPc' = [iPc EXCEPT ![p] = "done"]
                    /\ iResult' = [iResult EXCEPT ![p] = FALSE]
                    /\ UNCHANGED <<fsVars, iSkill, iTotal, iCompleted, iAttempt,
                                   iDelay, instHist, hRefEntry, hProgress>>
               ELSE uninstallSkill(p)
    /\ UNCHANGED <<agentType, scope, workspaceOpen, provVars, idVars, fetchVars,
                   updVars, catVars, treeVars, reloadVars>>

\* The caller has the result of uninstallSkill, or has caught its error.
UninstallPathReturn(p) ==
    /\ iPc[p] = "done"
    /\ SlotReleased(p)
    /\ gipResult' = "none"
    /\ UNCHANGED <<fsVars, pathEnv, gipThrow, provVars, idVars, fetchVars, updVars, catVars, treeVars, reloadVars>>

\* Nothing is installed; the last path resolution was the installed-list
\* scan, which suppresses the error.
UninstPathInit ==
    /\ IdStart
    /\ idSkillId = MakeId(SrcA, DirF)
    /\ FetchIdle
    /\ ProvRest
    /\ UpdRest
    /\ ReloadRest
    /\ CatRest
    /\ TreeRest
    /\ storageMode \in BOOLEAN
    /\ backing = NoDir
    /\ toolEntry = "none"
    /\ gitAvailable = "unknown"
    /\ SlotsIdle
    /\ agentType = "antigravity"
    /\ scope = "global"
    /\ workspaceOpen = TRUE
    /\ agentRootDir = TRUE
    /\ globalPath = TRUE
    /\ gipThrow = FALSE
    /\ gipResult = "none"

UninstPathNext ==
    \/ \E p \in Calls : UninstallFromPath(p) \/ UninstallPathReturn(p)
    \/ EnvChanged

SpecUninstallPath == UninstPathInit /\ [][UninstPathNext]_vars

\* ---- two installSkill calls for one package, the second begun while the
\* first is in flight; a returned call keeps its result until the other
\* has returned too
Other(p) == CHOOSE q \in Calls : q # p

OverlapInstall(p) ==
    /\ iPc[p] = "idle"
    /\ iPc[Other(p)] # "done"
    /\ \E skill \in {s \in Skills : s.provenance} :
        /\ iOp' = [iOp EXCEPT ![p] = "install"]
        /\ installSkill(p, skill)
    /\ UNCHANGED <<fsVars, iAttempt, iDelay, hRefEntry, hProgress, provVars, idVars,
                   fetchVars, updVars, pathVars, catVars, treeVars, reloadVars>>

\* Both callers have their results.
PairReturn ==
    /\ \A p \in Calls : iPc[p] = "done"
    /\ iPc' = [p \in Calls |-> "idle"]
    /\ iOp' = [p \in Calls |-> "none"]
    /\ iSkill' = [p \in Calls |-> NoSkill]
    /\ iTotal' = [p \in Calls |-> 0]
    /\ iCompleted' = [p \in Calls |-> 0]
    /\ iAttempt' = [p \in Calls |-> 0]
    /\ iDelay' = [p \in Calls |-> 0]
    /\ iResult' = [p \in Calls |-> FALSE]
    /\ hFailedStep' = [p \in Calls |-> "none"]
    /\ hCleanup' = [p \in Calls |-> "none"]
    /\ hStages' = [p \in Calls |-> <<>>]
    /\ hRefEntry' = [p \in Calls |-> "none"]
    /\ hProgress' = [p \in Calls |-> <<>>]
    /\ UNCHANGED <<fsVars, provVars, idVars, fetchVars, updVars, pathVars, catVars,
                   treeVars, reloadVars>>

\* A call that ran alone has returned.
LoneReturn(p) ==
    /\ iPc[p] = "done"
    /\ iPc[Other(p)] = "idle"
    /\ SlotReleased(p)
    /\ UNCHANGED <<fsVars, provVars, idVars, fetchVars, updVars, pathVars, catVars,
                   treeVars, reloadVars>>

OverlapInit ==
    /\ IdStart
    /\ idSkillId = MakeId(SrcA, DirF)
    /\ FetchIdle
    /\ ProvRest
    /\ UpdRest
    /\ ReloadRest
    /\ CatRest
    /\ TreeRest
    /\ PathRest
    /\ storageMode \in BOOLEAN
    /\ backing = NoDir
    /\ toolEntry = "none"
    /\ gitAvailable = "unknown"
    /\ SlotsIdle

OverlapNext ==
    \/ PairReturn
    \/ \E p \in Calls :
        \/ OverlapInstall(p)
        \/ ListingResponse(p)
        \/ DownloadResponse(p)
        \/ LoneReturn(p)

SpecOverlap == OverlapInit /\ [][OverlapNext]_vars

\* ---- a list reload beside the install handler
\* getInstalledSkillIds lists the package: a directory entry of the install
\* path (a link is none) that holds SKILL.md, the first file of a package.
ScanInstalled == ScannedDir.exists /\ 1 \in ScannedDir.files

\* The entry _loadOfficialSkills builds for the package from a fetched
\* record of revision `latest`: _updateInstalledStatus, the updateMap of
\* checkUpdates, checkLocalModified for an installed one.
LoadedEntry(latest) ==
    LET info == EntryNow(latest)
    IN  [commitSha |-> latest,
         isInstalled |-> ScanInstalled,
         hasUpdate |-> info.set /\ info.hasUpdate,
         installedVersion |-> IF info.set THEN info.installedVersion ELSE NoSha,
         isLocalModified |-> ScanInstalled /\ checkLocalModified(DirAtToolPath)]

\* _handleConfigureToken has saved the token (or the view has resolved):
\* _loadOfficialSkills up to `await this._githubSource.fetchSkillList()`
ReloadStart ==
    /\ NoTailPending
    /\ pReload = "idle"
    /\ pReload' = "fetching"
    /\ hDuring' = FALSE
    /\ UNCHANGED <<pDetached, instVars, provVars, idVars, fetchVars, updVars, pathVars,
                   catVars, treeVars>>

\* fetchSkillList has resolved: the rest of _loadOfficialSkills, which no
\* input event interrupts (checkUpdates has no await of its own).  A throw
\* on the way ends in the catch block, which posts the list as it is.
ReloadLoaded ==
    /\ NoTailPending
    /\ pReload = "fetching"
    /\ pReload' = "idle"
    /\ hDuring' = FALSE
    /\ \E ok \in BOOLEAN, latest \in {"r1", "r2"} :
        IF ok
        THEN /\ pAllSkills' = LoadedEntry(latest)
             /\ viewSkills' = pAllSkills'
             /\ pDetached' = [p \in Calls |-> iPc[p] # "idle"]
             /\ IF ScannedDir.exists /\ ~ScannedDir.meta.exists
                THEN WithMeta(LegacyMeta)
                ELSE UNCHANGED <<backing, plainMeta>>
        ELSE /\ viewSkills' = pAllSkills
             /\ UNCHANGED <<pAllSkills, pDetached, backing, plainMeta>>
    /\ hPushed' = TRUE
    /\ UNCHANGED <<storageMode, toolEntry, gitAvailable, slotVars, instHist, hRefEntry,
                   hProgress, uResult, updateMap, hChecked, hRestore, idVars, fetchVars,
                   pathVars, catVars, treeVars>>

\* One install handler at a time beside the reload.
ReloadNext ==
    \/ ReloadStart
    \/ ReloadLoaded
    \/ \E p \in {"h1"} :
        \/ HandleInstall(p)
        \/ OnListing(p)
        \/ OnDownload(p)
        \/ HandlerDone(p)

SpecReload == ProvInit /\ [][ReloadNext]_vars

\* ---- link migration after a change of agent type or scope; the user
\* edits nothing here
\* _migrateJunctions for the package's directory in the storage path.  The
\* tool-visible path is a new one: `entry` is what is there.  An entry
\* that existsSync finds is kept; otherwise createJunction runs, and after
\* its success updateMetadataJunctionPath rewrites .metadata.json, a file
\* of the committed baseline when the install committed one.
Migrated(dir) ==
    IF dir.meta.exists
    THEN [dir EXCEPT !.meta.junctionPath = TRUE, !.edited = @ \/ dir.repo.committed]
    ELSE dir

MigrateJunctions ==
    /\ NoCallRunning
    /\ storageMode
    /\ backing.exists
    /\ \E entry \in {"none", "dir", "link"}, created \in BOOLEAN :
        IF entry # "none"
        THEN toolEntry' = entry /\ UNCHANGED backing
        ELSE /\ toolEntry' = IF created THEN "link" ELSE "none"
             /\ backing' = IF created THEN Migrated(backing) ELSE backing
    /\ UNCHANGED <<storageMode, gitAvailable, slotVars, instHist, hRefEntry, hProgress,
                   provVars, idVars, fetchVars, updVars, pathVars, catVars, treeVars,
                   reloadVars>>

MigrateInit ==
    /\ IdStart
    /\ idSkillId = MakeId(SrcA, DirF)
    /\ FetchIdle
    /\ ProvRest
    /\ UpdRest
    /\ ReloadRest
    /\ CatRest
    /\ TreeRest
    /\ PathRest
    /\ storageMode = TRUE
    /\ backing = NoDir
    /\ toolEntry = "none"
    /\ gitAvailable = "unknown"
    /\ SlotsIdle

MigrateNext ==
    \/ MigrateJunctions
    \/ CheckUpdatesCall
    \/ CheckUpdatesReturn
    \/ \E p \in {"h1"} :
        \/ InstallCall(p)
        \/ ListingResponse(p)
        \/ DownloadResponse(p)
        \/ CallReturn(p)

SpecMigrate == MigrateInit /\ [][MigrateNext]_vars

\* ---- the category of a listed package
\* The six display categories, written here by their meaning: the labels
\* guessCategory returns, in the order of its tests, then its default.
KeywordClasses == <<"programming", "office", "creative", "analysis", "life">>
OtherCategory == "other"
DisplayCategories == Range(KeywordClasses) \cup {OtherCategory}

\* parseSkillMd: the value of a `category:` line, trimmed and unquoted; any
\* non-empty text can stand there ("": no such line).
HeaderCategories == DisplayCategories \cup {"", "devops"}

\* guessCategory: the label of the first pattern that matches the
\* lower-cased name and description, the default when none does.
RECURSIVE FirstMatch(_, _)
FirstMatch(classes, matches) ==
    IF classes = <<>> THEN OtherCategory
    ELSE IF Head(classes) \in matches THEN Head(classes)
    ELSE FirstMatch(Tail(classes), matches)

guessCategory(matches) == FirstMatch(KeywordClasses, matches)

\* toSkill: `claudeSkill.category || this.guessCategory(claudeSkill)`
toSkillCategory(header, matches) ==
    IF header # "" THEN header ELSE guessCategory(matches)

\* fetchSkillMetadata has fetched and parsed one SKILL.md.
SkillMdParsed ==
    /\ catHeader' \in HeaderCategories
    /\ catMatches' \in SUBSET Range(KeywordClasses)
    /\ catResult' = "none"
    /\ UNCHANGED <<idVars, fetchVars, instVars, provVars, updVars, pathVars, treeVars, reloadVars>>

\* fetchSkillsFromPath maps the parsed package to its record.
ToSkillMapped ==
    /\ catResult = "none"
    /\ catResult' = toSkillCategory(catHeader, catMatches)
    /\ UNCHANGED <<catHeader, catMatches, idVars, fetchVars, instVars, provVars,
                   updVars, pathVars, treeVars, reloadVars>>

CatInit ==
    /\ IdStart
    /\ idSkillId = MakeId(SrcA, DirF)
    /\ FetchIdle
    /\ InstRest
    /\ ProvRest
    /\ UpdRest
    /\ ReloadRest
    /\ CatRest
    /\ TreeRest
    /\ PathRest

CatNext == SkillMdParsed \/ ToSkillMapped

SpecCategory == CatInit /\ [][CatNext]_vars

(***************************************************************************)
(* Properties of the installer and the provider                            *)
(***************************************************************************)
\* Call p has returned from an installSkill whose try block threw at or
\* before the metadata save.
InstallFailed(p) ==
    /\ iPc[p] = "done"
    /\ iOp[p] \in {"install", "update"}
    /\ hFailedStep[p] \in RolledBackSteps

\* C1 as stated (refuted): when a step of installSkill from the listing
\* through the metadata save fails, the call returns false, the backing
\* directory does not exist and no .metadata.json of the package exists.
C1_FullRollback ==
    \A p \in Calls :
        InstallFailed(p) =>
            /\ ~iResult[p]
            /\ ~backing.exists
            /\ ~backing.meta.exists

\* C1 as the code has it: when such a step fails the call returns false; the
\* backing directory and its .metadata.json are gone whenever the deletion
\* in the catch block succeeded, and the directory is still there whenever
\* that deletion itself threw.
C1_RollbackIsBestEffort ==
    \A p \in Calls :
        InstallFailed(p) =>
            /\ ~iResult[p]
            /\ hCleanup[p] # "failed" => ~backing.exists /\ ~backing.meta.exists
            /\ hCleanup[p] = "failed" => backing.exists

\* The second of two downloads failed, the first file had been written, and
\* the catch block removed the directory.
C1_Witness ==
    \E p \in Calls :
        /\ InstallFailed(p)
        /\ hFailedStep[p] = "download"
        /\ iTotal[p] = 2
        /\ iCompleted[p] = 1
        /\ hCleanup[p] = "removed"
        /\ ~backing.exists

StageRank(name) ==
    IF name = "download" THEN 1
    ELSE IF name = "metadata" THEN 2
    ELSE IF name = "git" THEN 3
    ELSE 4

\* The stages of one call are in pipeline order: downloads, then the
\* metadata save, then the baseline, then the link, each at most once
\* except the downloads; the metadata save comes after all iTotal downloads
\* have succeeded.
StagesOrdered(p) ==
    LET t == hStages[p]
    IN  /\ \A i, j \in DOMAIN t :
              i < j => /\ StageRank(t[i].stage) <= StageRank(t[j].stage)
                       /\ StageRank(t[i].stage) = StageRank(t[j].stage)
                             => t[i].stage = "download"
        /\ \A i \in DOMAIN t :
              t[i].stage = "metadata" =>
                 /\ i = iTotal[p] + 1
                 /\ \A k \in 1..(i - 1) : t[k] = Stage("download", "ok")
        /\ \A i \in DOMAIN t :
              t[i].stage \in {"git", "link"} =>
                 \E k \in 1..(i - 1) : t[k] = Stage("metadata", "ok")
        /\ \A i \in DOMAIN t :
              t[i].stage = "link" => \E k \in 1..(i - 1) : t[k].stage = "git"

\* C13 as stated (refuted): the stages of an installSkill call are strictly
\* ordered and no stage starts after an earlier stage failed.
C13_StrictPipeline ==
    \A p \in Calls :
        /\ StagesOrdered(p)
        /\ \A i \in DOMAIN hStages[p] :
              hStages[p][i].outcome = "failed" => i = Len(hStages[p])

\* C13 as the code has it: the stages are strictly ordered, and no stage
\* starts after a download or the metadata save failed; a failure of the
\* baseline initialisation is caught inside initGitRepo and the link is
\* created all the same.
C13_PipelineGatedOnDownloadAndMetadata ==
    \A p \in Calls :
        /\ StagesOrdered(p)
        /\ \A i \in DOMAIN hStages[p] :
              (hStages[p][i].outcome = "failed"
                 /\ hStages[p][i].stage \in {"download", "metadata"})
                    => i = Len(hStages[p])
        /\ \A i \in DOMAIN hStages[p] :
              (hStages[p][i].stage = "git" /\ storageMode)
                    => (i < Len(hStages[p]) /\ hStages[p][i + 1].stage = "link")

\* Two files were downloaded, the metadata saved, the baseline failed and
\* the link was created.
C13_Witness ==
    \E p \in Calls :
        /\ iPc[p] = "done"
        /\ iResult[p]
        /\ hStages[p] = <<Stage("download", "ok"), Stage("download", "ok"),
                          Stage("metadata", "ok"), Stage("git", "failed"),
                          Stage("link", "ok")>>
        /\ toolEntry = "link"

\* A step of call p: the call starts, one of its awaits resolves, or its
\* handler reads the result.
StepOf(p) ==
    <<iPc[p], iOp[p], iCompleted[p], iAttempt[p]>>' #
        <<iPc[p], iOp[p], iCompleted[p], iAttempt[p]>>

\* C14: a step of uninstallSkill called with a storage path never changes a
\* plain directory at the tool-visible path; the only change it makes to
\* the tool-visible entry is the removal of a link, in its first step,
\* while the backing directory is still in place; the backing directory is
\* removed in a later step, which leaves the tool-visible entry alone.
C14_LinkFirstNeverPlainDir ==
    [][\A p \in Calls :
          (storageMode /\ iOp'[p] = "uninstall" /\ StepOf(p)) =>
             /\ toolEntry = "dir" => toolEntry' = "dir"
             /\ toolEntry' # toolEntry =>
                   /\ toolEntry = "link"
                   /\ toolEntry' = "none"
                   /\ iPc[p] = "idle"
                   /\ backing.exists
                   /\ backing' = backing
             /\ backing' # backing =>
                   /\ iPc[p] = "rm"
                   /\ backing' = NoDir
                   /\ toolEntry' = toolEntry]_vars

\* uninstallSkill ran with a storage path and returned true: the backing
\* directory is gone and the plain directory at the tool-visible path is
\* still there.
C14_Witness ==
    \E p \in Calls :
        /\ storageMode
        /\ iOp[p] = "uninstall"
        /\ iPc[p] = "done"
        /\ iResult[p]
        /\ ~backing.exists
        /\ toolEntry = "dir"

\* Call p is inside safeRemoveDir.
Removing(p) == iPc[p] \in {"rm", "backoff"}

\* C15: safeRemoveDir terminates. It starts at most MaxRetries = 5 deletion
\* attempts (i = 0..4); it returns as soon as an attempt succeeds or finds
\* the directory absent; after the failure of attempt i < 4 it waits
\* 200 * 2^i ms (200, 400, 800, 1600) and tries again; the failure of
\* attempt 4 is thrown at once, with no wait.
C15_BoundedBackoff ==
    /\ [](\A p \in Calls :
            /\ iPc[p] = "rm" => iAttempt[p] \in 0..4
            /\ iPc[p] = "backoff" =>
                  /\ iAttempt[p] \in 0..3
                  /\ iDelay[p] = <<200, 400, 800, 1600>>[iAttempt[p] + 1]
            /\ iPc[p] # "backoff" => iDelay[p] = 0)
    /\ [][\A p \in Calls : StepOf(p) =>
            /\ (iPc[p] = "rm" /\ backing' = NoDir) => ~Removing(p)'
            /\ (iPc[p] = "rm" /\ iAttempt[p] = 4 /\ backing' # NoDir) =>
                  (iPc'[p] = "done" /\ ~iResult'[p])
            /\ (iPc[p] = "rm" /\ iAttempt[p] < 4 /\ backing' # NoDir) =>
                  iPc'[p] = "backoff"
            /\ (iPc[p] = "backoff" /\ ~backing.exists) => ~Removing(p)'
            /\ (iPc[p] = "backoff" /\ backing.exists) =>
                  (iPc'[p] = "rm" /\ iAttempt'[p] = iAttempt[p] + 1)]_vars
    /\ \A p \in Calls : Removing(p) ~> ~Removing(p)

\* The fourth failed attempt (i = 3) is being waited out for 1600 ms.
C15_Witness ==
    \E p \in Calls :
        /\ iPc[p] = "backoff"
        /\ iAttempt[p] = 3
        /\ iDelay[p] = 1600

\* C16 (refuted): updateSkill ends in the filesystem state, and returns the
\* value, of uninstallSkill followed by installSkill under the same
\* outcomes.  Checked where the two can be told apart on one run: the
\* deletion of the backing directory succeeded and the installSkill part
\* failed and rolled back.  uninstallSkill followed by that installSkill
\* returns false, leaves no backing directory, and leaves at junctionDir
\* what uninstallSkill left there, for a failed installSkill never reaches
\* createJunction.
C16_UpdateIsUninstallThenInstall ==
    \A p \in Calls :
        (iOp[p] = "update" /\ iPc[p] = "done" /\ hFailedStep[p] \in RolledBackSteps
            /\ hCleanup[p] # "failed") =>
                /\ ~iResult[p]
                /\ backing = NoDir
                /\ toolEntry = hRefEntry[p]

\* C17 as stated (refuted): an update command for an installed package whose
\* isLocalModified flag is set starts no updateSkill call, and no step of an
\* update call deletes or rewrites the files of a package whose flag is set.
C17_UpdateSparesLocalEdits ==
    [][\A p \in Calls :
          /\ (pAllSkills.isInstalled /\ pAllSkills.isLocalModified)
                => ~(iOp[p] # "update" /\ iOp'[p] = "update")
          /\ (pAllSkills.isLocalModified /\ iOp[p] = "update" /\ StepOf(p))
                => (backing'.exists = backing.exists /\ backing'.files = backing.files)
      ]_vars

\* C18 as stated (refuted): a checkUpdates call that finds the package's
\* working tree different from its install baseline does not report the
\* package with hasUpdate = true.
C18_LocallyModifiedNeverOutdated ==
    (uResult = "returned" /\ hChecked.modified)
        => ~(updateMap.set /\ updateMap.hasUpdate)

RestoreBegins(p) == iOp[p] # "restore" /\ iOp'[p] = "restore"

\* C20: a restoreOfficialVersion call that finds a repository at the backing
\* path and whose restore commands succeed resolves to true in the same step,
\* without a listing or download request and with the backing directory, its
\* files and its metadata in place and the working tree back at the
\* baseline; a restore call reaches the removal or a request only when there
\* was no repository or the restore failed, and then it removes the backing
\* directory first and reinstalls through installSkill.
C20_RestorePrefersLocalRepo ==
    /\ [][\A p \in Calls :
            RestoreBegins(p) =>
                /\ hRestore'[p] = "norepo" <=> ~backing.repo.exists
                /\ hRestore'[p] = "ok" =>
                      /\ iPc'[p] = "done" /\ iResult'[p]
                      /\ backing'.exists /\ backing'.files = backing.files
                      /\ backing'.meta = backing.meta /\ backing'.repo = backing.repo
                      /\ ~checkLocalModified(backing')
                      /\ toolEntry' = toolEntry
                /\ hRestore'[p] # "ok" =>
                      /\ backing' = backing
                      /\ iPc'[p] = (IF backing.exists THEN "rm"
                                    ELSE IF iSkill'[p].provenance THEN "listing"
                                    ELSE "done")
          ]_vars
    /\ [](\A p \in Calls :
            iOp[p] = "restore" =>
                /\ hRestore[p] = "ok" => iPc[p] = "done"
                /\ iPc[p] \in {"rm", "backoff", "listing", "downloading"}
                      => hRestore[p] \in {"norepo", "failed"})

\* A locally restored package: the call is over, nothing was requested.
C20_Witness ==
    \E p \in Calls :
        /\ iOp[p] = "restore" /\ hRestore[p] = "ok"
        /\ iPc[p] = "done" /\ iResult[p]
        /\ backing.exists /\ backing.repo.committed /\ ~backing.edited
        /\ hStages[p] = <<>>

\* The package is installed on disk, in the widest sense: its directory with
\* files and metadata is in the backing store, linked or not.
OnDiskInstalled == backing.exists /\ backing.files # {} /\ backing.meta.exists

\* C21 as stated (refuted), in one half of its isInstalled part: once every
\* command has completed, the entry's isInstalled flag is set only if the
\* package is installed on disk.
C21_FlagsFollowDisk ==
    NoCallRunning => (pAllSkills.isInstalled => OnDiskInstalled)

\* C22 as stated (refuted), in its completion part: the handler of a command
\* that completes, successfully or not, posts updateSkills.
C22_CompletionPushesList ==
    [][\A p \in Calls : (iPc[p] = "done" /\ iPc'[p] = "idle") => hPushed']_vars

C24_BestEffortNeverFatal ==
    /\ \A p \in Calls :
          (iPc[p] = "done" /\ iOp[p] \in {"install", "update"}
             /\ \E i \in DOMAIN hStages[p] :
                   /\ hStages[p][i].stage \in {"git", "link"}
                   /\ hStages[p][i].outcome = "failed")
            => (iResult[p] /\ backing.exists /\ backing.meta.exists)
    /\ ~backing.repo.exists => ~checkLocalModified(backing)

\* A getInstallPath call runs in this step.
PathAsked == gipResult = "none" /\ gipResult' # "none"

\* C25: asked in project scope with no workspace open, getInstallPath throws
\* when throwOnMissing is true and answers the empty string when it is
\* false, and leaves every directory as it was.
C25_ProjectScopeNeedsWorkspace ==
    [][(PathAsked /\ scope = "project" /\ ~workspaceOpen) =>
          /\ gipResult' = (IF gipThrow' THEN "thrown" ELSE "empty")
          /\ agentRootDir' = agentRootDir
          /\ globalPath' = globalPath]_vars

\* A suppressed failure in project scope without a workspace, for a
\* registered agent whose skills directory is still missing.
C25_Witness ==
    /\ scope = "project" /\ ~workspaceOpen /\ getAgent(agentType)
    /\ ~gipThrow /\ gipResult = "empty"
    /\ agentRootDir /\ ~globalPath

\* C26 as stated (refuted): in global scope, with the agent's root missing
\* getInstallPath fails and creates nothing; with the root present and the
\* skills directory missing it creates the directory and answers its path.
C26_RootMissingFailsElseCreates ==
    [][(PathAsked /\ getAgent(agentType) /\ scope = "global") =>
          /\ ~agentRootDir =>
                /\ gipResult' = (IF gipThrow' THEN "thrown" ELSE "empty")
                /\ ~agentRootDir' /\ ~globalPath'
          /\ (agentRootDir /\ ~globalPath) =>
                (gipResult' = "path" /\ globalPath')]_vars

\* C26 as the code has it: with the root missing it fails and creates
\* nothing; with the root present and the skills directory missing it
\* creates the directory and answers its path, unless the creation itself
\* fails: then the directory is still missing and the call fails the same
\* way (throws, or answers the empty string when suppressed).
C26_RootMissingFailsElseTriesToCreate ==
    [][(PathAsked /\ getAgent(agentType) /\ scope = "global") =>
          /\ ~agentRootDir =>
                /\ gipResult' = (IF gipThrow' THEN "thrown" ELSE "empty")
                /\ ~agentRootDir' /\ ~globalPath'
          /\ (agentRootDir /\ ~globalPath) =>
                /\ agentRootDir'
                /\ gipResult' = "path" <=> globalPath'
                /\ ~globalPath' => gipResult' = (IF gipThrow' THEN "thrown" ELSE "empty")
          /\ globalPath => (gipResult' = "path" /\ globalPath')]_vars

\* The root is there, the skills directory could not be created, and the
\* call has thrown.
C26_Witness ==
    /\ getAgent(agentType) /\ scope = "global"
    /\ agentRootDir /\ ~globalPath
    /\ gipThrow /\ gipResult = "thrown"

\* C27: uninstallSkill for an id that is neither at the tool path nor in the
\* backing store shows a warning, raises no error, returns false and leaves
\* the file system as it was.
C27_AbsentUninstallIsNoOp ==
    [][\A p \in Calls :
        (/\ iPc[p] = "idle" /\ iOp'[p] = "uninstall" /\ iPc'[p] = "done"
         /\ ~backing.exists /\ toolEntry = "none")
        => (/\ gipResult' # "thrown"
            /\ iResult'[p] = FALSE
            /\ fsVars' = fsVars
            /\ globalPath' = globalPath
            /\ agentRootDir' = agentRootDir)]_vars

\* C28: during an install of n files onProgress is called once per
\* completed file, with (1,n), (2,n), ... in that order and only in the step
\* in which that file's download has resolved; when the download of file k
\* fails it has been called k-1 times and no later download is started.
C28_ProgressPerCompletedFile ==
    /\ [](\A p \in Calls :
            /\ Len(hProgress[p]) = iCompleted[p]
            /\ \A i \in DOMAIN hProgress[p] : hProgress[p][i] = <<i, iTotal[p]>>
            /\ iPc[p] = "downloading" => 1..iCompleted[p] \subseteq backing.files
            /\ hFailedStep[p] = "download"
                  => iPc[p] = "done" /\ iCompleted[p] < iTotal[p])
    /\ [][\A p \in Calls :
            /\ (hProgress'[p] # hProgress[p] /\ iPc'[p] # "idle")
                  => /\ iPc[p] = "downloading"
                     /\ hProgress'[p] = Append(hProgress[p],
                                               <<iCompleted[p] + 1, iTotal[p]>>)
            /\ hFailedStep[p] = "download"
                  => /\ iPc'[p] \in {"done", "idle"}
                     /\ hProgress'[p] \in {hProgress[p], <<>>}]_vars

\* The download of the second of two files has failed after one report.
C28_Witness ==
    \E p \in Calls :
        /\ hFailedStep[p] = "download"
        /\ iTotal[p] = 2
        /\ hProgress[p] = <<(<<1, 2>>)>>

\* C29: every record of the list has a category of the closed set of six
\* display categories, whether the package header gave it or the keyword
\* classifier did.
C29_CategoryInClosedSet ==
    catResult # "none" => catResult \in DisplayCategories

\* C30: after a successful install the backing directory holds the whole
\* remote package directory, the files of its sub-directories included.
C30_WholePackageInstalled ==
    \A p \in Calls :
        (iPc[p] = "done" /\ iOp[p] = "install" /\ iResult[p])
            => \A item \in PackageListing(iTotal[p]) : Downloaded(backing, item)

\* C31: after installSkill or updateSkill has succeeded for a record of
\* revision r the metadata file carries installedVersion r (and a
\* junctionPath exactly with a storage path), and a checkUpdates against
\* the same list does not report an update; after a successful uninstall
\* no metadata of the package is left.
C31_MetadataFollowsLifecycle ==
    \A p \in Calls :
        (iPc[p] = "done" /\ iResult[p])
        => /\ (iOp[p] \in {"install", "update"} /\ iSkill[p].commitSha # NoSha)
                => /\ backing.meta.exists
                   /\ backing.meta.installedVersion = iSkill[p].commitSha
                   /\ backing.meta.junctionPath = storageMode
                   /\ ~EntryNow(iSkill[p].commitSha).hasUpdate
           /\ iOp[p] = "uninstall"
                => /\ ~backing.meta.exists
                   /\ ~ScannedDir.meta.exists

\* C32: an installSkill that fails on an installed package (the listing
\* fails or names no file, or a download fails) leaves the installation in
\* place: the backing directory, its files and its metadata are still there
\* when the call returns false.
C32_FailedReinstallKeepsInstallation ==
    [][\A p \in Calls :
        (/\ iOp[p] = "install" /\ iPc[p] \in {"listing", "downloading"}
         /\ iPc'[p] = "done" /\ ~iResult'[p]
         /\ hFailedStep'[p] \in {"listing", "nofiles", "download"}
         /\ OnDiskInstalled)
        => OnDiskInstalled']_vars

\* C33: two overlapping installSkill calls for one package, under every
\* interleaving of their downloads and rollbacks: once both have returned
\* and one of them returned true, the backing directory is there with the
\* complete file set and the metadata file.
C33_OverlappingInstallsLeavePackage ==
    (\A p \in Calls : iPc[p] = "done" /\ iOp[p] = "install")
        => \A p \in Calls :
              iResult[p] => /\ OnDiskInstalled
                            /\ 1..iTotal[p] \subseteq backing.files

\* C34: when a list reload overlaps an install of a package, then once both
\* have completed and the install has succeeded, the list last posted to
\* the view marks the package as installed.  Whichever of the two ends
\* last posts last: the install handler after a reload that replaced the
\* list under it, or the reload after an install that succeeded while it
\* was fetching.
C34_ReloadKeepsInstalledMark ==
    [][/\ \A p \in Calls :
            (/\ iPc[p] = "done" /\ iPc'[p] = "idle"
             /\ iOp[p] = "install" /\ iResult[p]
             /\ pDetached[p] /\ pReload = "idle")
            => viewSkills'.isInstalled
       /\ (/\ pReload = "fetching" /\ pReload' = "idle"
           /\ hDuring /\ NoCallRunning)
            => viewSkills'.isInstalled]_vars

\* C35: installSkill with a storage path never deletes a plain directory
\* that is at the tool-visible path: the creation of the link leaves it
\* and its content in place.
C35_InstallSparesPlainDir ==
    [][\A p \in Calls :
        (StepOf(p) /\ iOp[p] = "install" /\ storageMode /\ toolEntry = "dir")
        => toolEntry' = "dir"]_vars

\* C36: whenever uninstallSkill has returned true, neither an entry at the
\* tool-visible path nor the backing directory is left, with or without a
\* storage path and whatever the entry was, so that no directory scan can
\* report the package any more.
C36_UninstalledMeansGone ==
    \A p \in Calls :
        (iPc[p] = "done" /\ iOp[p] = "uninstall" /\ iResult[p])
        => (~backing.exists /\ toolEntry = "none")

\* C37: after installSkill has succeeded with a storage path and the link
\* is at the tool-visible path, the scans that keep the entries with
\* entry.isDirectory() see the package: getInstalledSkillIds lists it and
\* checkUpdates sets an entry for it whenever the list gives its revision.
C37_ScansSeeLinkedPackage ==
    \A p \in Calls :
        (/\ iPc[p] = "done" /\ iOp[p] = "install" /\ iResult[p]
         /\ storageMode /\ toolEntry = "link")
        => /\ ScanInstalled
           /\ \A latest \in LatestShas \ {NoSha} : EntryNow(latest).set

\* C38: an installed package whose files the user never edited is never
\* reported as locally modified: whatever link migrations and update checks
\* have run, checkLocalModified answers false for it.
C38_UntouchedNeverModified ==
    (NoCallRunning /\ OnDiskInstalled) => ~checkLocalModified(backing)

\* C39: the revalidation short-circuit returns the cached list as a
\* non-degraded result only when no registered source has got a commit since
\* the cached list was fetched: not one in a source other than the first,
\* and not one that landed between the listings and the retrieval of the
\* validator token.
C39_ShortCircuitOnlyWhenUnchanged ==
    [][(fPc = "revalidate" /\ fPc' = "done") => hChangedSinceCached = {}]_vars

\* C40: checkUpdates changes the file system only by writing a legacy
\* metadata file into an installed package directory that lacks one: a
\* directory of the install path without SKILL.md is not written to, and an
\* existing metadata file keeps its content.
C40_CheckWritesOnlyLegacyMeta ==
    [][(uResult = "none" /\ uResult' # "none") =>
          LET dir == ScannedDir
              wrote == IF storageMode THEN plainMeta' ELSE backing'.meta
              rest == IF storageMode THEN backing' = backing
                      ELSE backing' = [backing EXCEPT !.meta = wrote]
          IN  /\ rest
              /\ toolEntry' = toolEntry
              /\ IF dir.exists /\ ~dir.meta.exists /\ 1 \in dir.files
                 THEN wrote \in {dir.meta, LegacyMeta}
                 ELSE wrote = (IF storageMode THEN plainMeta ELSE backing.meta)]_vars

\* Call p is between the start of its transition and its return.
InTransition(p) == iPc[p] \in {"listing", "downloading", "rm", "backoff"}

\* C2 as stated (refuted): at most one install, update or uninstall
\* transition of the package is in flight at any time.
C2_OneTransitionPerId ==
    Cardinality({p \in Calls : InTransition(p)}) <= 1

====
